---- MODULE Spec2Model ----
(***************************************************************************)
(* OpticalSend: block pipeline, journal, handshake and transfer engine.    *)
(*                                                                         *)
(* Byte buffers are sequences of naturals.  The cryptographic primitives   *)
(* of Web Crypto are modelled symbolically: SHA-256 is collision free, an  *)
(* AES-GCM tag authenticates exactly the (key, iv, ciphertext body) it was *)
(* made for, ECDH is commutative and HKDF is injective.                    *)
(***************************************************************************)
EXTENDS Integers, Sequences, FiniteSets, TLC

VARIABLES
  pc,        \* phase of the run: "init", "transfer", "sending", "done"
  file,      \* fileData: the bytes of the file being sent
  bsize,     \* blockSizeBytes
  sKey,      \* the session key held by the sender
  blocks,    \* sender: BlockRecord[] returned by createEncryptedBlocksFromFile
  dbOpen,    \* BlockStore: this.db is an open database
  journal,   \* BlockStore: rows of the blocks object store
  pipeline,  \* ReceiverPipeline: symKey, tracker session, blockTracker, flags
  last,      \* the last processReceivedBlock call: count, block object, result
  assembled, \* the last assembleAndValidateFile call: manifest and outcome
  clean,     \* history: sequences delivered unmodified so far
  sender,    \* SenderPipeline: tracker session, flags, data channel
  emitted,   \* sender: what the last handleNACK call sent, in order
  hs,        \* handshake: both peers' state and the frames exchanged
  rtracker,  \* a ReceivedBlockTracker: totalExpected and the received map
  rsent,     \* receiver: what the last pipeline call sent on the data channel
  now,       \* Date.now(): the wall clock in milliseconds
  timer,     \* a TransferTracker: session, startTime, pauseStartTime
  lapse,     \* history: when timer was constructed, time spent paused, calls
  sel,       \* the last selectBestCompression call: input, outcome of gzip, result
  chan,      \* an RTCDataChannel: readyState, send buffer, messages handed to it
  flights,   \* the sendBlockViaDataChannel calls in flight: position, block, held back
  sessions,  \* BlockStore: rows of the sessions object store
  squeue,    \* a SendQueue: queue map, currentIndex; history: blocks taken, end seen
  qr,        \* the last chunkBlockForQR call: block, budget, frames returned
  signaling  \* the LocalSignalingServer, what each peer's send() received, calls made

vars == <<pc, file, bsize, sKey, blocks, dbOpen, journal, pipeline, last,
          assembled, clean, sender, emitted, hs, rtracker, rsent,
          now, timer, lapse,
          sel,
          chan, flights,
          sessions,
          squeue,
          qr,
          signaling>>

\* Variables of the sender pipeline and of the handshake.
senderVars == <<sender, emitted>>

\* Variables of the data channel and of the sends in flight on it.
channelVars == <<chan, flights>>

\* Variables of the elapsed-time clock of a TransferTracker.
clockVars == <<now, timer, lapse>>

\* ------------------------------------------------------------------ bounds
MaxFileLen == 3
MaxBlockSize == 3
MaxCalls == 3

\* Bytes of a handshake nonce (16 in the program).
NonceLen == 2

\* Blocks a stand-alone ReceivedBlockTracker expects at most.
MaxTrackerBlocks == 3

\* NACKs a sender handles in a run.
MaxNacks == 6

\* Calls of processReceivedBlockInPipeline in a session run.
MaxPipelineCalls == 2

\* Milliseconds the wall clock advances in a run.
MaxTime == 5

\* Calls of pause and resume on a TransferTracker in a run.
MaxClockCalls == 4

\* Bytes of an input of a stand-alone selectBestCompression call.
MaxDataLen == 5

\* sendBlockViaDataChannel calls in flight on one data channel.
MaxSends == 2

\* Blocks added to a stand-alone SendQueue, and getNext() calls of its driver.
MaxQueueBlocks == 3

MaxDrives == 4

Byte == {0, 1}
Keys == {"K1", "K2"}
IVs == {1, 2}
Files == UNION {[1..n -> Byte] : n \in 0..MaxFileLen}
BlockSizes == 1..MaxBlockSize

\* ------------------------------------------------------- opticalCrypto.ts
\* arrayBufferToBase64 / base64ToArrayBuffer: a tagged text form of the bytes.
arrayBufferToBase64(buffer) == <<"b64", buffer>>

base64ToArrayBuffer(base64) == base64[2]

\* computeSHA256: hex digest; equal digests only for equal inputs.
computeSHA256(data) == <<"sha256", data>>

\* AES-GCM keystream: the ciphertext body is the plaintext shifted per position.
GcmBody(data, iv) == [i \in 1..Len(data) |-> data[i] + iv + i]

GcmPlain(body, iv) == [i \in 1..Len(body) |-> body[i] - iv - i]

\* A tag that does not depend on the key (C8 rests on the key being bound).
GcmTagUnkeyed(key, iv, body) == <<"K1", iv, body>>

GcmTag(key, iv, body) == <<key, iv, body>>

\* encryptAESGCM(data, key) with the random 12-byte IV drawn as iv.
encryptAESGCM(data, key, iv) ==
  [ciphertext |-> [body |-> GcmBody(data, iv),
                   tag  |-> GcmTag(key, iv, GcmBody(data, iv))],
   iv |-> arrayBufferToBase64(iv)]

\* Decryption that skips authentication (C5 rests on the tag being verified).
decryptUnauthenticated(ciphertext, key, ivBase64) ==
  [ok |-> TRUE, data |-> GcmPlain(ciphertext.body, base64ToArrayBuffer(ivBase64))]

\* decryptAESGCM: throws (ok = FALSE) when the tag does not authenticate.
decryptAESGCM(ciphertext, key, ivBase64) ==
  LET iv == base64ToArrayBuffer(ivBase64)
  IN  IF ciphertext.tag = GcmTag(key, iv, ciphertext.body)
      THEN [ok |-> TRUE, data |-> GcmPlain(ciphertext.body, iv)]
      ELSE [ok |-> FALSE, data |-> <<>>]

\* -------------------------------------------------- opticalCompression.ts
\* pako.gzip: a magic byte followed by one code per run of equal bytes
\* (code = 256 * run length + byte value).
\* Length of the run of data[1] that starts at position 1, counted from position i.
RECURSIVE RunLength(_, _)
RunLength(data, i) ==
  IF i <= Len(data) /\ data[i] = data[1] THEN RunLength(data, i + 1) ELSE i - 1

RECURSIVE GzipRuns(_)
GzipRuns(data) ==
  IF data = <<>> THEN <<>>
  ELSE LET c == RunLength(data, 1)
       IN  <<256 * c + data[1]>> \o GzipRuns(SubSeq(data, c + 1, Len(data)))

RECURSIVE GunzipRuns(_)
GunzipRuns(codes) ==
  IF codes = <<>> THEN <<>>
  ELSE [i \in 1..(codes[1] \div 256) |-> codes[1] % 256] \o GunzipRuns(Tail(codes))

compress(data, algorithm) ==
  IF algorithm = "gzip" THEN <<31>> \o GzipRuns(data) ELSE data

\* decompress: pako.ungzip throws on input that is not a gzip stream.
decompress(data, algorithm) ==
  IF algorithm = "gzip"
  THEN IF Len(data) >= 1 /\ data[1] = 31 /\ \A i \in 2..Len(data) : data[i] >= 256
       THEN [ok |-> TRUE, data |-> GunzipRuns(Tail(data))]
       ELSE [ok |-> FALSE, data |-> <<>>]
  ELSE [ok |-> TRUE, data |-> data]

\* A selection that takes gzip whatever its size (C23 rests on the 95 % test).
selectGzipAlways(data) ==
  [compressed |-> compress(data, "gzip"), type |-> "gzip", originalSize |-> Len(data)]

\* selectBestCompression: gzip only if strictly below 95 % of the input size.
selectBestCompression(data) ==
  LET gzipped == compress(data, "gzip")
  IN  IF Len(gzipped) * 100 < Len(data) * 95
      THEN [compressed |-> gzipped, type |-> "gzip", originalSize |-> Len(data)]
      ELSE [compressed |-> data, type |-> "none", originalSize |-> Len(data)]

\* selectBestCompression with its try/catch: when pako.gzip throws, the catch
\* block logs and the function falls through to type none.
selectBestCompressionCatching(data, threw) ==
  IF threw
  THEN [compressed |-> data, type |-> "none", originalSize |-> Len(data)]
  ELSE selectBestCompression(data)

\* --------------------------------------------------- opticalBlockManager.ts
uuidv4(n) == <<"uuid", n>>

JSONstringify(header) == <<"json", header>>

JSONparse(text) == text[2]

\* Math.floor in place of Math.ceil (C9 rests on the rounding up).
Floor(n, b) == n \div b

\* Math.ceil(n / b) for b >= 1
Ceil(n, b) == (n + b - 1) \div b

Min(a, b) == IF a <= b THEN a ELSE b

\* The BlockRecord that createEncryptedBlocksFromFile pushes for sequence seq.
EncryptedBlock(fileId, fileData, symKey, blockSizeBytes, seq, iv) ==
  LET totalBlocks == Ceil(Len(fileData), blockSizeBytes)
      start == seq * blockSizeBytes
      end == Min(start + blockSizeBytes, Len(fileData))
      blockData == SubSeq(fileData, start + 1, end)
      compressionResult == selectBestCompression(blockData)
      checksum == computeSHA256(compressionResult.compressed)
      encrypted == encryptAESGCM(compressionResult.compressed, symKey, iv)
      header == [protocol |-> "opticalsend-v1", fileId |-> fileId,
                 blockId |-> uuidv4(seq), seq |-> seq, totalSeq |-> totalBlocks,
                 payloadSize |-> Len(encrypted.ciphertext.body) + 1,
                 rawSize |-> Len(blockData),
                 compression |-> compressionResult.type,
                 encryption |-> "AES-GCM", iv |-> encrypted.iv,
                 kdf |-> "ECDH-P256", checksum |-> checksum]
  IN  [id |-> header.blockId, fileId |-> fileId, seq |-> seq,
       totalSeq |-> totalBlocks, header |-> header,
       payload |-> encrypted.ciphertext, state |-> "pending", attempts |-> 0,
       sentOverQR |-> FALSE, sentOverWiFi |-> FALSE, verified |-> FALSE,
       lastError |-> "none", retransmitCount |-> 0]

\* createEncryptedBlocksFromFile; ivs[i] is the IV drawn for sequence i - 1.
createEncryptedBlocksFromFile(fileId, fileData, symKey, blockSizeBytes, ivs) ==
  [i \in 1..Ceil(Len(fileData), blockSizeBytes) |->
     EncryptedBlock(fileId, fileData, symKey, blockSizeBytes, i - 1, ivs[i])]

\* ------------------------------------------------------------ opticalDB.ts
\* A put() of a row that carries the session key in a field (C28 rests on the
\* rows being stored as they are built).
storeBlockWithKey(store, block) ==
  {r \in store : ~(r.fileId = block.fileId /\ r.seq = block.seq)}
    \cup {[block EXCEPT !.state = "K1"]}

\* A put() that adds the row and keeps what was there (C26 rests on the key
\* path of the blocks store).
storeBlockKeyless(store, block) == store \cup {block}

\* The blocks object store: a set of rows, at most one per key (fileId, seq).
\* put() replaces the row that has the same key.
storeBlock(store, block) ==
  {r \in store : ~(r.fileId = block.fileId /\ r.seq = block.seq)} \cup {block}

getBlocksForFile(store, fileId) == {r \in store : r.fileId = fileId}

\* ------------------------------------------ processReceivedBlock (receiver)
\* A catch branch that leaves the retransmit counter alone (C6 rests on the
\* increment).
CaughtUncounted(block, err) ==
  [block EXCEPT !.state = "failed", !.lastError = err]

\* The catch branch: state failed, error recorded, retransmit counter + 1.
Caught(block, err) ==
  [block EXCEPT !.state = "failed", !.lastError = err,
                !.retransmitCount = block.retransmitCount + 1]

\* processReceivedBlock with the row written as soon as the payload decrypts,
\* before the checksum is compared (C36 rests on the write coming last).
processStoringUnverified(block, symKey, store, isOpen) ==
  LET decrypted == decryptAESGCM(block.payload, symKey, block.header.iv)
      checksum == computeSHA256(decrypted.data)
      decompressed == decompress(decrypted.data, block.header.compression)
      row == [fileId |-> block.fileId, seq |-> block.seq,
              header |-> JSONstringify(block.header), payload |-> block.payload,
              state |-> block.state, decompressed |-> decompressed.data]
      written == IF isOpen THEN storeBlock(store, row) ELSE store
  IN  IF ~decrypted.ok
      THEN [block |-> Caught(block, "OperationError"), store |-> store, ret |-> FALSE,
            steps |-> <<"decrypt">>]
      ELSE IF checksum # block.header.checksum
      THEN [block |-> Caught(block, "Checksum mismatch"), store |-> written,
            ret |-> FALSE, steps |-> <<"decrypt", "hash">>]
      ELSE IF ~decompressed.ok
      THEN [block |-> Caught(block, "incorrect header check"), store |-> written,
            ret |-> FALSE, steps |-> <<"decrypt", "hash", "decompress">>]
      ELSE IF ~isOpen
      THEN [block |-> Caught(block, "DB not initialized"), store |-> store,
            ret |-> FALSE, steps |-> <<"decrypt", "hash", "decompress", "store">>]
      ELSE [block |-> [block EXCEPT !.state = "completed", !.verified = TRUE],
            store |-> written, ret |-> TRUE,
            steps |-> <<"decrypt", "hash", "decompress", "store">>]

\* processReceivedBlock with the decompression moved in front of the checksum
\* comparison (C34 rests on the order of the three steps).
processDecompressingFirst(block, symKey, store, isOpen) ==
  LET decrypted == decryptAESGCM(block.payload, symKey, block.header.iv)
      checksum == computeSHA256(decrypted.data)
      decompressed == decompress(decrypted.data, block.header.compression)
      row == [fileId |-> block.fileId, seq |-> block.seq,
              header |-> JSONstringify(block.header), payload |-> block.payload,
              state |-> block.state, decompressed |-> decompressed.data]
  IN  IF ~decrypted.ok
      THEN [block |-> Caught(block, "OperationError"), store |-> store, ret |-> FALSE,
            steps |-> <<"decrypt">>]
      ELSE IF ~decompressed.ok
      THEN [block |-> Caught(block, "incorrect header check"), store |-> store,
            ret |-> FALSE, steps |-> <<"decrypt", "decompress">>]
      ELSE IF checksum # block.header.checksum
      THEN [block |-> Caught(block, "Checksum mismatch"), store |-> store, ret |-> FALSE,
            steps |-> <<"decrypt", "decompress", "hash">>]
      ELSE IF ~isOpen
      THEN [block |-> Caught(block, "DB not initialized"), store |-> store,
            ret |-> FALSE, steps |-> <<"decrypt", "decompress", "hash", "store">>]
      ELSE [block |-> [block EXCEPT !.state = "completed", !.verified = TRUE],
            store |-> storeBlock(store, row), ret |-> TRUE,
            steps |-> <<"decrypt", "decompress", "hash", "store">>]

\* processReceivedBlock(block, symKey, blockStore): the mutated block, the store
\* afterwards, the value returned and the calls made, in order (decrypt:
\* decryptAESGCM, hash: computeSHA256, decompress, store: storeBlock).
\* isOpen: the store has an open database.
processReceivedBlock(block, symKey, store, isOpen) ==
  LET decrypted == decryptAESGCM(block.payload, symKey, block.header.iv)
      checksum == computeSHA256(decrypted.data)
      decompressed == decompress(decrypted.data, block.header.compression)
      row == [fileId |-> block.fileId, seq |-> block.seq,
              header |-> JSONstringify(block.header), payload |-> block.payload,
              state |-> block.state, decompressed |-> decompressed.data]
  IN  IF ~decrypted.ok
      THEN [block |-> Caught(block, "OperationError"), store |-> store, ret |-> FALSE,
            steps |-> <<"decrypt">>]
      ELSE IF checksum # block.header.checksum
      THEN [block |-> Caught(block, "Checksum mismatch"), store |-> store, ret |-> FALSE,
            steps |-> <<"decrypt", "hash">>]
      ELSE IF ~decompressed.ok
      THEN [block |-> Caught(block, "incorrect header check"), store |-> store,
            ret |-> FALSE, steps |-> <<"decrypt", "hash", "decompress">>]
      ELSE IF ~isOpen
      THEN [block |-> Caught(block, "DB not initialized"), store |-> store,
            ret |-> FALSE, steps |-> <<"decrypt", "hash", "decompress", "store">>]
      ELSE [block |-> [block EXCEPT !.state = "completed", !.verified = TRUE],
            store |-> storeBlock(store, row), ret |-> TRUE,
            steps |-> <<"decrypt", "hash", "decompress", "store">>]

\* ------------------------------------------------------ opticalTransfer.ts
\* TransferTracker.setState
setState(session, state, errorReason) ==
  [session EXCEPT !.state = state,
                  !.errorReason = IF errorReason # "" THEN errorReason ELSE @]

markBlockCompleted(session) ==
  [session EXCEPT !.blocksCompleted = @ + 1]

markBlockFailed(session) ==
  [session EXCEPT !.blocksFailed = @ + 1]

recordRetransmit(session) ==
  [session EXCEPT !.retransmitCount = @ + 1]

\* TransferTracker.getProgressPercent(): Math.round of
\* (blocksCompleted - blocksFailed) / totalBlocks * 100.  Math.round rounds a
\* half upwards; a division by zero gives NaN (0 / 0) or an infinity, kept in
\* kind with value 0.
getProgressPercent(session) ==
  LET done == session.blocksCompleted - session.blocksFailed
  IN  IF session.totalBlocks = 0
      THEN [kind |-> IF done = 0 THEN "NaN"
                     ELSE IF done > 0 THEN "Infinity" ELSE "-Infinity",
            value |-> 0]
      ELSE [kind |-> "number",
            value |-> (200 * done + session.totalBlocks)
                        \div (2 * session.totalBlocks)]

\* ----------------------------------------------------- opticalAssembly.ts
fileDataSha256(data) == computeSHA256(data)

\* Rows in descending sequence order (C1 rests on the ascending sort).
RECURSIVE SortBySeqDescending(_)
SortBySeqDescending(rows) ==
  IF rows = {} THEN <<>>
  ELSE LET first == CHOOSE r \in rows : \A q \in rows : r.seq >= q.seq
       IN  <<first>> \o SortBySeqDescending(rows \ {first})

\* blocks.sort by header seq (rows come from the store in key order).
RECURSIVE SortBySeq(_)
SortBySeq(rows) ==
  IF rows = {} THEN <<>>
  ELSE LET first == CHOOSE r \in rows : \A q \in rows :
                      \/ JSONparse(r.header).seq < JSONparse(q.header).seq
                      \/ /\ JSONparse(r.header).seq = JSONparse(q.header).seq
                         /\ r.seq <= q.seq
       IN  <<first>> \o SortBySeq(rows \ {first})

RECURSIVE JoinPayloads(_)
JoinPayloads(rows) ==
  IF rows = <<>> THEN <<>> ELSE rows[1].decompressed \o JoinPayloads(Tail(rows))

\* assembleAndValidateFile: the Blob's bytes, or the error thrown.
assembleAndValidateFile(fileId, store, isOpen, manifest) ==
  LET rows == getBlocksForFile(store, fileId)
      sorted == SortBySeq(rows)
      receivedSeq == {JSONparse(r.header).seq : r \in rows}
      missingSeq == {q \in 0..(manifest.totalBlocks - 1) : q \notin receivedSeq}
      finalData == JoinPayloads(sorted)
  IN  IF ~isOpen THEN [ok |-> FALSE, data |-> <<>>, error |-> "DB not initialized"]
      ELSE IF rows = {}
      THEN [ok |-> FALSE, data |-> <<>>, error |-> "No blocks found for file"]
      ELSE IF missingSeq # {}
      THEN [ok |-> FALSE, data |-> <<>>, error |-> "Missing blocks"]
      ELSE IF computeSHA256(finalData) # manifest.sha256
      THEN [ok |-> FALSE, data |-> <<>>, error |-> "SHA-256 mismatch"]
      ELSE [ok |-> TRUE, data |-> finalData, error |-> ""]

\* ------------------------------------------------- opticalReceiverFlow.ts
TheFile == "F1"

\* initializeReceiverPipeline
initializeReceiverPipeline(fileId, totalBlocks, symKey) ==
  [fileId |-> fileId, totalBlocks |-> totalBlocks, symKey |-> symKey,
   tracker |-> [state |-> "active", totalBlocks |-> totalBlocks,
                blocksCompleted |-> 0, blocksFailed |-> 0, retransmitCount |-> 0,
                errorReason |-> ""],
   blockTracker |-> {}, isPaused |-> FALSE, isStopped |-> FALSE]

\* What the transport may do to a block in flight.
Modes == {"valid", "payload", "tag", "checksum", "compression"}

Tamper(block, mode, idx) ==
  CASE mode = "payload" ->
         [block EXCEPT !.payload.body[idx] = @ + 1]
    [] mode = "tag" ->
         [block EXCEPT !.payload.tag[2] = @ + 1]
    [] mode = "checksum" ->
         [block EXCEPT !.header.checksum[2] = Append(@, 0)]
    [] mode = "compression" ->
         [block EXCEPT !.header.compression = IF @ = "gzip" THEN "none" ELSE "gzip"]
    [] OTHER -> block

\* The BlockRecord the receiver builds for a frame (header + payload).
Incoming(block) ==
  [id |-> block.header.blockId, fileId |-> block.header.fileId,
   seq |-> block.header.seq, totalSeq |-> block.header.totalSeq,
   header |-> block.header, payload |-> block.payload, state |-> "pending",
   attempts |-> 0, sentOverQR |-> FALSE, sentOverWiFi |-> FALSE,
   verified |-> FALSE, lastError |-> "none", retransmitCount |-> 0]

\* A pipeline that counts and tracks the block whatever the result (C14 rests
\* on the success test).
countWhateverResult(pl, block, success) ==
  [pl EXCEPT !.tracker = markBlockCompleted(@),
             !.blockTracker = @ \cup {block.seq}]

\* processReceivedBlockInPipeline: the pipeline after a processReceivedBlock result.
processReceivedBlockInPipeline(pl, block, success) ==
  IF success
  THEN [pl EXCEPT !.tracker = markBlockCompleted(@),
                  !.blockTracker = @ \cup {block.seq}]
  ELSE [pl EXCEPT !.tracker = recordRetransmit(markBlockFailed(@))]

\* A finalization that ignores the outcome of assembly (C17 rests on the
\* catch branch).
finalizeWhateverResult(session, res) ==
  setState(setState(session, "pending", "Assembling file..."), "completed", "")

\* finalizeReceiverTransfer: the tracker session after assembly returned res.
finalizeReceiverTransfer(session, res) ==
  LET assembling == setState(session, "pending", "Assembling file...")
  IN  IF res.ok THEN setState(assembling, "completed", "")
      ELSE setState(assembling, "failed", res.error)

\* ------------------------------------------------ ReceivedBlockTracker
\* The received Map is the sequence of its entries in insertion order.
\* new ReceivedBlockTracker(totalBlocks)
ReceivedBlockTracker(totalBlocks) ==
  [totalExpected |-> totalBlocks, received |-> <<>>]

\* received.has(seq)
MapHas(received, seq) == \E i \in 1..Len(received) : received[i].seq = seq

\* received.get(seq), for a key the map has
MapGet(received, seq) ==
  received[CHOOSE i \in 1..Len(received) : received[i].seq = seq].data

\* received.set(seq, data): a new key goes last, a known key keeps its place.
MapSet(received, seq, data) ==
  IF MapHas(received, seq)
  THEN [i \in 1..Len(received) |->
          IF received[i].seq = seq THEN [seq |-> seq, data |-> data]
          ELSE received[i]]
  ELSE Append(received, [seq |-> seq, data |-> data])

\* addBlock(seq, data)
addBlock(t, seq, data) == [t EXCEPT !.received = MapSet(@, seq, data)]

\* The loop of getMissingSequences from sequence seq on.
RECURSIVE MissingFrom(_, _)
MissingFrom(t, seq) ==
  IF seq >= t.totalExpected THEN <<>>
  ELSE (IF MapHas(t.received, seq) THEN <<>> ELSE <<seq>>)
         \o MissingFrom(t, seq + 1)

\* getMissingSequences()
getMissingSequences(t) == MissingFrom(t, 0)

\* isComplete()
isComplete(t) == Len(t.received) = t.totalExpected

\* The entries' payloads in the order they were inserted.
getBlocksAsInserted(t) == [i \in 1..Len(t.received) |-> t.received[i].data]

\* The loop of getBlocksInOrder from sequence seq on.
RECURSIVE BlocksFrom(_, _)
BlocksFrom(t, seq) ==
  IF seq >= t.totalExpected THEN <<>>
  ELSE (IF MapHas(t.received, seq) THEN <<MapGet(t.received, seq)>> ELSE <<>>)
         \o BlocksFrom(t, seq + 1)

\* getBlocksInOrder()
getBlocksInOrder(t) == BlocksFrom(t, 0)

\* The bytes of the buffers one after the other.
RECURSIVE Flatten(_)
Flatten(buffers) ==
  IF buffers = <<>> THEN <<>> ELSE Head(buffers) \o Flatten(Tail(buffers))

\* reassembleFile(): null, or the reassembled bytes
reassembleFile(t) ==
  IF ~isComplete(t) THEN [null |-> TRUE, data |-> <<>>]
  ELSE [null |-> FALSE, data |-> Flatten(getBlocksInOrder(t))]

\* -------------------------------------------------- opticalTransfer.ts clock
\* TransferTracker.pause / resume (state only)
pause(session) == [session EXCEPT !.state = "paused"]

resume(session) == [session EXCEPT !.state = "active"]

\* Date.now() when a run starts: some positive number of milliseconds.
Epoch == 1

\* new TransferTracker(session) at time t; pauseStartTime is undefined (0).
TransferTracker(t) ==
  [session |-> [state |-> "active", pausedTime |-> 0],
   startTime |-> t, pauseStartTime |-> 0]

\* TransferTracker.pause() at time t
pauseAt(tt, t) ==
  [tt EXCEPT !.session = [pause(@) EXCEPT !.pausedTime = t],
             !.pauseStartTime = t]

\* TransferTracker.resume() at time t
resumeAt(tt, t) ==
  [tt EXCEPT !.session = resume(@),
             !.startTime = IF tt.pauseStartTime # 0
                           THEN @ + (t - tt.pauseStartTime) ELSE @]

\* TransferTracker.getElapsedSeconds() at time t, in milliseconds (the program
\* divides this by 1000).
getElapsedSeconds(tt, t) == t - tt.startTime

\* ------------------------------------------------------------- SendQueue
\* new SendQueue(): the queue Map (a set of blocks, one per seq) and currentIndex.
SendQueue == [queue |-> {}, currentIndex |-> 0]

\* The fields of a BlockRecord that the queue touches.
QueuedBlock(seq) ==
  [fileId |-> TheFile, seq |-> seq, state |-> "pending", attempts |-> 0,
   sentOverQR |-> FALSE, sentOverWiFi |-> FALSE, verified |-> FALSE,
   lastError |-> "none"]

\* SendQueue.add(block)
queueAdd(sq, block) ==
  [sq EXCEPT !.queue = {b \in @ : b.seq # block.seq} \cup {block}]

\* No block: the undefined that getNext() returns.
Undefined == [QueuedBlock(0) EXCEPT !.state = "undefined"]

\* SendQueue.getNext()
getNext(sq) ==
  IF sq.currentIndex < Cardinality(sq.queue)
       /\ \E b \in sq.queue : b.seq = sq.currentIndex
  THEN CHOOSE b \in sq.queue : b.seq = sq.currentIndex
  ELSE Undefined

\* SendQueue.markSent(seq, medium)
markSent(sq, seq, medium) ==
  [sq EXCEPT !.queue =
     {IF b.seq # seq THEN b
      ELSE [b EXCEPT !.sentOverQR = IF medium = "qr" THEN TRUE ELSE @,
                     !.sentOverWiFi = IF medium = "qr" THEN @ ELSE TRUE,
                     !.state = "queued", !.attempts = @ + 1] : b \in @}]

\* SendQueue.markCompleted(seq)
markCompleted(sq, seq) ==
  [sq EXCEPT !.queue =
     {IF b.seq # seq THEN b
      ELSE [b EXCEPT !.state = "completed", !.verified = TRUE] : b \in @}]

\* SendQueue.markFailed(seq, error)
markFailed(sq, seq, error) ==
  [sq EXCEPT !.queue =
     {IF b.seq # seq THEN b
      ELSE [b EXCEPT !.state = "failed", !.lastError = error] : b \in @}]

\* SendQueue.getProgress()
getProgress(sq) ==
  [sent |-> Cardinality({b \in sq.queue :
                           /\ b.state \notin {"completed", "failed"}
                           /\ b.sentOverQR \/ b.sentOverWiFi}),
   completed |-> Cardinality({b \in sq.queue : b.state = "completed"}),
   failed |-> Cardinality({b \in sq.queue : b.state = "failed"}),
   total |-> Cardinality(sq.queue)]

\* SendQueue.getAll(): the values of the queue Map.
getAll(sq) == sq.queue

\* ---------------------------------------------------- LocalSignalingServer
\* The peers of a session and the handleMessage calls of a run.
Peers == {"sender", "receiver"}

MaxSignals == 3

\* new LocalSignalingServer(): the peers Map (its keys) and the messageQueues
\* Map (a function on the keys it holds).
LocalSignalingServer == [peers |-> {}, messageQueues |-> <<>>]

\* messageQueues.get(peerId) || []
QueueOf(server, peerId) ==
  IF peerId \in DOMAIN server.messageQueues THEN server.messageQueues[peerId]
  ELSE <<>>

\* messageQueues.set(peerId, queue)
QueueSet(server, peerId, queue) ==
  [server EXCEPT !.messageQueues =
     [p \in (DOMAIN @) \cup {peerId} |-> IF p = peerId THEN queue ELSE @[p]]]

\* handleConnection(peerId, send): the server afterwards and what send() was
\* called with, in order.
handleConnection(server, peerId) ==
  LET connected == [server EXCEPT !.peers = @ \cup {peerId}]
      reset == QueueSet(connected, peerId, <<>>)
      queue == QueueOf(reset, peerId)
  IN  [server |-> QueueSet(reset, peerId, <<>>),
       sends |-> [i \in 1..Len(queue) |-> JSONstringify(queue[i])]]

\* handleMessage(msg): the server afterwards and what the target's send() was
\* called with.
handleMessage(server, msg) ==
  IF msg.targetPeerId = "" THEN [server |-> server, sends |-> <<>>]
  ELSE IF msg.targetPeerId \in server.peers
  THEN [server |-> server, sends |-> <<JSONstringify(msg)>>]
  ELSE [server |-> QueueSet(server, msg.targetPeerId,
                            Append(QueueOf(server, msg.targetPeerId), msg)),
        sends |-> <<>>]

\* disconnectPeer(peerId)
disconnectPeer(server, peerId) ==
  [peers |-> server.peers \ {peerId},
   messageQueues |-> [p \in (DOMAIN server.messageQueues) \ {peerId} |->
                        server.messageQueues[p]]]

\* ------------------------------------------------- opticalDataChannel.ts
MAX_BUFFERED_AMOUNT == 1024 * 1024

\* Bytes of a block payload (a block of 1 MiB) and of an announcement text.
PayloadBytes == 1024 * 1024

AnnouncementBytes == 128

\* The calls in flight and the blocks they send.
Sends == 1..MaxSends

ChannelSeqs == {0, 1}

\* An open RTCDataChannel: buffer holds the sizes of the messages not yet
\* transmitted, wire the messages handed to send() so far.
RTCDataChannel == [readyState |-> "open", buffer |-> <<>>, wire |-> <<>>]

RECURSIVE SumOf(_)
SumOf(sizes) == IF sizes = <<>> THEN 0 ELSE Head(sizes) + SumOf(Tail(sizes))

\* dc.bufferedAmount
bufferedAmount(dc) == SumOf(dc.buffer)

\* dc.send(data)
dcSend(dc, msg, size) ==
  [dc EXCEPT !.buffer = Append(@, size), !.wire = Append(@, msg)]

\* A sendBinary that never waits (C25 rests on the watermark test).
neverWait(dc) == FALSE

\* sendBinary: the condition of its wait loop.
mustWait(dc) == bufferedAmount(dc) > MAX_BUFFERED_AMOUNT

\* ------------------------------------------------------------ state machine
NoManifest == [fileId |-> "none", totalBlocks |-> 0, sha256 |-> computeSHA256(<<>>)]

\* The manifest the sender emits for the file.
FileManifest == [fileId |-> TheFile, totalBlocks |-> Len(blocks),
                 sha256 |-> fileDataSha256(file)]

Manifests == {FileManifest,
              [FileManifest EXCEPT !.sha256 = fileDataSha256(Append(file, 0))]}

\* The sender pipeline and the handshake while they play no part in a run.
NoSender == [tracker |-> initializeReceiverPipeline("none", 0, "none").tracker,
             isPaused |-> FALSE, isStopped |-> FALSE, dataChannel |-> "none",
             sendQueue |-> SendQueue]

NoHandshake == [phase |-> "none"]

\* The data channel record of a run in which no pipeline call has sent anything.
NoSent == [channel |-> "none", out |-> <<>>]

\* The block object of a call that has not happened yet.
NoBlock == EncryptedBlock("none", <<>>, "none", 1, 0, 0)

\* After construction, with the block store initialized or not and a block
\* tracker for totalExpected blocks. The keys are interchangeable, so the sender
\* holds K1 and the receiver either key.
InitWith(open, totalExpected) ==
  /\ pc = "init"
  /\ file \in Files
  /\ bsize \in BlockSizes
  /\ sKey = "K1"
  /\ blocks = <<>>
  /\ dbOpen \in open
  /\ journal = {}
  /\ \E k \in Keys :
       pipeline = initializeReceiverPipeline(TheFile, Ceil(Len(file), bsize), k)
  /\ last = [n |-> 0, block |-> NoBlock, fresh |-> TRUE, ret |-> FALSE, steps |-> <<>>]
  /\ assembled = [called |-> FALSE, manifest |-> NoManifest, ok |-> FALSE,
                  data |-> <<>>, error |-> ""]
  /\ clean = {}
  /\ sender = NoSender
  /\ emitted = <<>>
  /\ hs = NoHandshake
  /\ rtracker \in {ReceivedBlockTracker(n) : n \in totalExpected}
  /\ rsent = NoSent
  /\ now = Epoch
  /\ timer = TransferTracker(now)
  /\ lapse = [created |-> now, paused |-> 0, calls |-> 0]
  /\ sel = [called |-> FALSE, data |-> <<>>, threw |-> FALSE,
            result |-> selectBestCompression(<<>>)]
  /\ chan = RTCDataChannel
  /\ sessions = {}
  /\ qr = [called |-> FALSE, seq |-> 0, maxChunkBytes |-> 0, frames |-> <<>>]
  /\ signaling = [server |-> LocalSignalingServer,
                  received |-> [peerId \in Peers |-> <<>>], calls |-> 0]
  /\ squeue = [sq |-> SendQueue, taken |-> <<>>, ended |-> FALSE, added |-> {}]
  /\ flights = [i \in Sends |-> [pc |-> "idle", seq |-> 0, held |-> FALSE]]

\* Runs with the block store initialized.
Init == InitWith({TRUE}, {Ceil(Len(file), bsize)})

\* Sender: createEncryptedBlocksFromFile(fileId, fileData, symKey, blockSizeBytes).
\* The random IVs are iv0 + 1, iv0 + 2, ... for a random iv0.
CreateBlocks ==
  /\ pc = "init"
  /\ \E iv0 \in IVs :
       blocks' = createEncryptedBlocksFromFile(TheFile, file, sKey, bsize,
                   [i \in 1..Ceil(Len(file), bsize) |-> iv0 + i])
  /\ pc' = "transfer"
  /\ UNCHANGED <<signaling, qr, squeue, sessions, channelVars, sel, clockVars, rtracker, rsent, file, bsize, sKey, dbOpen, journal, pipeline, last, assembled, clean,
                 senderVars, hs>>

\* One call processReceivedBlock(block, symKey, blockStore).
Process(block, fresh) ==
  LET r == processReceivedBlock(block, pipeline.symKey, journal, dbOpen)
  IN  /\ journal' = r.store
      /\ last' = [n |-> last.n + 1, block |-> r.block, fresh |-> fresh, ret |-> r.ret,
                  steps |-> r.steps]

\* The frames the transport can hand over for the sender's block i.
Frames(i) ==
  {Incoming(Tamper(blocks[i], mode, idx)) :
     mode \in Modes, idx \in 1..Len(blocks[i].payload.body)}

\* A frame of a block arrives, possibly altered in flight, as a new object.
Deliver ==
  /\ pc = "transfer"
  /\ last.n < MaxCalls
  /\ \E i \in 1..Len(blocks) : \E block \in Frames(i) :
       /\ Process(block, TRUE)
       /\ clean' = IF block = Incoming(blocks[i]) THEN clean \cup {i} ELSE clean
  /\ UNCHANGED <<signaling, qr, squeue, sessions, channelVars, sel, clockVars, rtracker, rsent, pc, file, bsize, sKey, blocks, dbOpen, pipeline, assembled,
                 senderVars, hs>>

\* The object of the previous call is handed to processReceivedBlock again.
Redeliver ==
  /\ pc = "transfer"
  /\ last.n > 0
  /\ last.n < MaxCalls
  /\ Process(last.block, FALSE)
  /\ UNCHANGED <<signaling, qr, squeue, sessions, channelVars, sel, clockVars, rtracker, rsent, pc, file, bsize, sKey, blocks, dbOpen, pipeline, assembled, clean,
                 senderVars, hs>>

\* assembleAndValidateFile(fileId, blockStore, manifest), the last step of a run.
Assemble ==
  /\ pc = "transfer"
  /\ \E manifest \in Manifests :
       LET res == assembleAndValidateFile(TheFile, journal, dbOpen, manifest)
       IN  assembled' = [called |-> TRUE, manifest |-> manifest, ok |-> res.ok,
                         data |-> res.data, error |-> res.error]
  /\ pc' = "done"
  /\ UNCHANGED <<signaling, qr, squeue, sessions, channelVars, sel, clockVars, rtracker, rsent, file, bsize, sKey, blocks, dbOpen, journal, pipeline, last, clean,
                 senderVars, hs>>

Next ==
  \/ CreateBlocks
  \/ Deliver
  \/ Redeliver
  \/ Assemble

Spec == Init /\ [][Next]_vars

\* ------------------------------------- receiver pipeline (session) runs
\* The files of session runs: bytes all zero, or alternating from zero.
SessionFiles ==
  {f \in Files : \/ \A i \in 1..Len(f) : f[i] = 0
                 \/ \A i \in 1..Len(f) : f[i] = (i + 1) % 2}

\* A session after the handshake: both pipelines hold the same symmetric key.
InitSession ==
  /\ Init
  /\ pipeline.symKey = sKey
  /\ file \in SessionFiles

\* A receiver session whose block store was initialized, or was not.
InitReceiver ==
  /\ InitWith(BOOLEAN, {Ceil(Len(file), bsize)})
  /\ pipeline.symKey = sKey
  /\ file \in SessionFiles

\* DataChannelWrapper.sendMessage(msg): throws unless the channel is open.
sendMessage(dataChannel, msg) ==
  IF dataChannel # "open" THEN [ok |-> FALSE, out |-> <<>>]
  ELSE [ok |-> TRUE, out |-> <<JSONstringify(msg)>>]

\* DataChannelWrapper.sendNACK(fileId, blockId, seq, reason)
sendNACK(dataChannel, fileId, blockId, seq, reason) ==
  sendMessage(dataChannel, [type |-> "nack", fileId |-> fileId,
                            blockId |-> blockId, seq |-> seq, reason |-> reason])

\* DataChannelWrapper.sendACK(seq, blockId)
sendACK(dataChannel, seq, blockId) ==
  sendMessage(dataChannel, [type |-> "ack", seq |-> seq, blockId |-> blockId])

\* A pipeline call that sends nothing (C15 rests on the NACK branch).
PipelineSilent(block, success, dataChannel) == <<>>

\* processReceivedBlockInPipeline: what the call puts on dataChannel ("none":
\* no channel was passed) for the processed block and the value returned.
PipelineSends(block, success, dataChannel) ==
  IF ~success /\ dataChannel # "none"
  THEN sendNACK(dataChannel, block.fileId, block.id, block.seq,
                IF block.lastError = "none" THEN "Failed to process block"
                ELSE block.lastError).out
  ELSE <<>>

\* processReceivedBlockInPipeline(block, pipeline, dataChannel)
ProcessInPipeline(block, fresh, dataChannel) ==
  LET r == processReceivedBlock(block, pipeline.symKey, journal, dbOpen)
  IN  /\ Process(block, fresh)
      /\ pipeline' = processReceivedBlockInPipeline(pipeline, r.block, r.ret)
      /\ rsent' = [channel |-> dataChannel,
                   out |-> PipelineSends(r.block, r.ret, dataChannel)]

DataChannels == {"none", "open", "closed"}

\* The frames of block i altered in flight in one of the ways of modes.
PipelineFrames(i, modes) ==
  {Incoming(Tamper(blocks[i], mode, 1)) : mode \in modes}

\* A frame of a block reaches processReceivedBlockInPipeline as a new object.
DeliverWith(modes, channels) ==
  /\ pc = "transfer"
  /\ last.n < MaxPipelineCalls
  /\ \E i \in 1..Len(blocks), dataChannel \in channels :
       \E block \in PipelineFrames(i, modes) :
         /\ ProcessInPipeline(block, TRUE, dataChannel)
         /\ clean' = IF block = Incoming(blocks[i]) THEN clean \cup {i} ELSE clean
  /\ UNCHANGED <<signaling, qr, squeue, sessions, channelVars, sel, clockVars, rtracker, pc, file, bsize, sKey, blocks, dbOpen, assembled,
                 senderVars, hs>>

\* The object of the previous call is handed to the pipeline again.
RedeliverWith(channels) ==
  /\ pc = "transfer"
  /\ last.n > 0
  /\ last.n < MaxPipelineCalls
  /\ \E dataChannel \in channels :
       ProcessInPipeline(last.block, FALSE, dataChannel)
  /\ UNCHANGED <<signaling, qr, squeue, sessions, channelVars, sel, clockVars, rtracker, pc, file, bsize, sKey, blocks, dbOpen, assembled, clean,
                 senderVars, hs>>

\* Deliveries of a session without a data channel: frames as emitted or with
\* the authentication tag altered.
DeliverInPipeline == DeliverWith({"valid", "tag"}, {"none"})

RedeliverInPipeline == RedeliverWith({"none"})

\* Deliveries with or without a data channel: frames as emitted or with the
\* authentication tag, the header checksum or the header compression altered.
DeliverToReceiver ==
  DeliverWith({"valid", "tag", "checksum", "compression"}, DataChannels)

RedeliverToReceiver == RedeliverWith(DataChannels)

\* finalizeReceiverTransfer(pipeline, manifest)
Finalize ==
  /\ pc = "transfer"
  /\ \E manifest \in Manifests :
       LET res == assembleAndValidateFile(pipeline.fileId, journal, dbOpen, manifest)
       IN  /\ assembled' = [called |-> TRUE, manifest |-> manifest, ok |-> res.ok,
                            data |-> res.data, error |-> res.error]
           /\ pipeline' = [pipeline EXCEPT
                             !.tracker = finalizeReceiverTransfer(@, res)]
  /\ UNCHANGED <<signaling, qr, squeue, sessions, channelVars, sel, clockVars, rtracker, rsent, pc, file, bsize, sKey, blocks, dbOpen, journal, last, clean,
                 senderVars, hs>>


\* pauseReceiver
PauseReceiver ==
  /\ pc = "transfer"
  /\ pipeline' = [pipeline EXCEPT !.isPaused = TRUE, !.tracker = pause(@)]
  /\ UNCHANGED <<signaling, qr, squeue, sessions, channelVars, sel, clockVars, rtracker, rsent, pc, file, bsize, sKey, blocks, dbOpen, journal, last, assembled,
                 clean, senderVars, hs>>

\* resumeReceiver
ResumeReceiver ==
  /\ pc = "transfer"
  /\ pipeline' = [pipeline EXCEPT !.isPaused = FALSE, !.tracker = resume(@)]
  /\ UNCHANGED <<signaling, qr, squeue, sessions, channelVars, sel, clockVars, rtracker, rsent, pc, file, bsize, sKey, blocks, dbOpen, journal, last, assembled,
                 clean, senderVars, hs>>

\* stopReceiver
StopReceiver ==
  /\ pc = "transfer"
  /\ pipeline' = [pipeline EXCEPT !.isStopped = TRUE,
                                  !.tracker = setState(@, "completed", "")]
  /\ UNCHANGED <<signaling, qr, squeue, sessions, channelVars, sel, clockVars, rtracker, rsent, pc, file, bsize, sKey, blocks, dbOpen, journal, last, assembled,
                 clean, senderVars, hs>>

NextPipeline ==
  \/ CreateBlocks
  \/ DeliverInPipeline
  \/ RedeliverInPipeline
  \/ Finalize
  \/ PauseReceiver
  \/ ResumeReceiver
  \/ StopReceiver

SpecPipeline == InitSession /\ [][NextPipeline]_vars

\* Receiver runs: deliveries and finalization, the store initialized or not.
NextReceiver ==
  \/ CreateBlocks
  \/ DeliverToReceiver
  \/ RedeliverToReceiver
  \/ Finalize

SpecReceiver == InitReceiver /\ [][NextReceiver]_vars

\* ------------------------------------------------- sender pipeline runs
\* sendBlockViaDataChannel: what goes out on the channel, and the block after.
\* On a channel that is not open sendBlockAnnouncement throws and the catch
\* swallows it.
sendBlockViaDataChannel(block, dataChannel) ==
  IF dataChannel = "open"
  THEN [out |-> <<[via |-> "announce", seq |-> block.seq, blockId |-> block.id],
                  [via |-> "binary", seq |-> block.seq, blockId |-> block.id]>>,
        block |-> [block EXCEPT !.sentOverWiFi = TRUE]]
  ELSE [out |-> <<>>, block |-> block]

\* ------------------------------------------------------------ opticalQR.ts
\* headerJson.length: the characters of JSON.stringify(header) for a header
\* with UUID identifiers, a 64-digit checksum, a 16-character iv, an ISO
\* timestamp and one-digit numbers.
HeaderJsonChars == 379

\* The bytes of a block payload: the ciphertext body followed by its tag.
PayloadOf(block) == Append(block.payload.body, block.payload.tag)

\* One QRChunkFrame of chunkBlockForQR.
QRChunkFrame(header, chunkIndex, chunkCount, slice) ==
  [type |-> "chunk", frameType |-> "chunk", fileId |-> header.fileId,
   blockId |-> header.blockId, seq |-> header.seq, chunkIndex |-> chunkIndex,
   chunkCount |-> chunkCount, chunkSize |-> Len(slice),
   checksum |-> header.checksum, payload |-> arrayBufferToBase64(slice)]

\* chunkBlockForQR(header, payload, maxChunkBytes). Math.floor(x * 0.75) is
\* (3 * x) \div 4, also for a negative x; with availablePerChunk below zero
\* Math.ceil(payload.length / availablePerChunk) is not positive and the loop
\* adds no chunk.
chunkBlockForQR(header, payload, maxChunkBytes) ==
  LET estimatedHeaderSize == HeaderJsonChars + 200
      availablePerChunk == (3 * (maxChunkBytes - estimatedHeaderSize)) \div 4
  IN  IF Len(payload) <= availablePerChunk
      THEN <<QRChunkFrame(header, 0, 1, payload)>>
      ELSE LET chunkCount == IF availablePerChunk > 0
                             THEN Ceil(Len(payload), availablePerChunk) ELSE 0
           IN  [i \in 1..chunkCount |->
                  LET start == (i - 1) * availablePerChunk
                      end == Min(start + availablePerChunk, Len(payload))
                  IN  QRChunkFrame(header, i - 1, chunkCount,
                                   SubSeq(payload, start + 1, end))]

\* sendBlockViaQR: each chunk of chunkBlockForQR(header, payload, 256) is
\* rendered on the canvas.
sendBlockViaQR(block) ==
  [out |-> [k \in 1..Len(chunkBlockForQR(block.header, PayloadOf(block), 256)) |->
              [via |-> "qr", seq |-> block.seq, blockId |-> block.id]],
   block |-> block]

\* Index of the first block with this id (pipeline.blocks.find), 0 if none.
FindBlock(blockId) ==
  IF \E i \in 1..Len(blocks) : blocks[i].id = blockId
  THEN CHOOSE i \in 1..Len(blocks) :
         /\ blocks[i].id = blockId
         /\ \A j \in 1..(i - 1) : blocks[j].id # blockId
  ELSE 0

\* initializeSenderPipeline(files, symKey, ...) for one file; the data channel
\* is attached by the caller (none, open, or no longer open).
InitializeSenderPipeline ==
  /\ pc = "init"
  /\ \E iv0 \in IVs :
       blocks' = createEncryptedBlocksFromFile(TheFile, file, sKey, bsize,
                   [i \in 1..Ceil(Len(file), bsize) |-> iv0 + i])
  /\ \E dc \in {"none", "open", "closed"} :
       sender' = [tracker |-> [state |-> "active", totalBlocks |-> Len(blocks'),
                               blocksCompleted |-> 0, blocksFailed |-> 0,
                               retransmitCount |-> 0, errorReason |-> ""],
                  isPaused |-> FALSE, isStopped |-> FALSE, dataChannel |-> dc,
                  sendQueue |-> SendQueue]
  /\ emitted' = <<>>
  /\ pc' = "sending"
  /\ UNCHANGED <<signaling, qr, squeue, sessions, channelVars, sel, clockVars, rtracker, rsent, file, bsize, sKey, dbOpen, journal, pipeline, last, assembled,
                 clean, hs>>

\* handleNACK(fileId, blockId, seq, reason, pipeline, canvas); emitted is what
\* this call sent.
HandleNACK ==
  /\ pc = "sending"
  /\ sender.tracker.retransmitCount < MaxNacks
  /\ \E n \in 0..MaxFileLen, canvas \in BOOLEAN :
       LET i == FindBlock(uuidv4(n))
       IN  IF i = 0
           THEN UNCHANGED <<blocks, sender, emitted>>
           ELSE LET block == [blocks[i] EXCEPT !.retransmitCount = @ + 1,
                                               !.attempts = @ + 1]
                    sent == IF sender.dataChannel # "none"
                            THEN sendBlockViaDataChannel(block, sender.dataChannel)
                            ELSE IF canvas THEN sendBlockViaQR(block)
                            ELSE [out |-> <<>>, block |-> block]
                IN  /\ sender' = [sender EXCEPT !.tracker = recordRetransmit(@)]
                    /\ blocks' = [blocks EXCEPT ![i] = sent.block]
                    /\ emitted' = sent.out
  /\ UNCHANGED <<signaling, qr, squeue, sessions, channelVars, sel, clockVars, rtracker, rsent, pc, file, bsize, sKey, dbOpen, journal, pipeline, last, assembled,
                 clean, hs>>

\* pauseSender
PauseSender ==
  /\ pc = "sending"
  /\ sender' = [sender EXCEPT !.isPaused = TRUE, !.tracker = pause(@)]
  /\ UNCHANGED <<signaling, qr, squeue, sessions, channelVars, sel, clockVars, rtracker, rsent, pc, file, bsize, sKey, blocks, dbOpen, journal, pipeline, last,
                 assembled, clean, emitted, hs>>

\* resumeSender
ResumeSender ==
  /\ pc = "sending"
  /\ sender' = [sender EXCEPT !.isPaused = FALSE, !.tracker = resume(@)]
  /\ UNCHANGED <<signaling, qr, squeue, sessions, channelVars, sel, clockVars, rtracker, rsent, pc, file, bsize, sKey, blocks, dbOpen, journal, pipeline, last,
                 assembled, clean, emitted, hs>>

\* stopSender
StopSender ==
  /\ pc = "sending"
  /\ sender' = [sender EXCEPT !.isStopped = TRUE,
                              !.tracker = setState(@, "completed", "")]
  /\ UNCHANGED <<signaling, qr, squeue, sessions, channelVars, sel, clockVars, rtracker, rsent, pc, file, bsize, sKey, blocks, dbOpen, journal, pipeline, last,
                 assembled, clean, emitted, hs>>

NextSender ==
  \/ InitializeSenderPipeline
  \/ HandleNACK
  \/ PauseSender
  \/ ResumeSender
  \/ StopSender

SpecSender == InitSession /\ [][NextSender]_vars

\* ----------------------------------------------------------- handshake
\* ECDH private keys; the public key of private key k is <<"pub", k>>.
PrivKeys == {1, 2, 3}

PublicKey(privateKey) == <<"pub", privateKey>>

Nonces == [1..NonceLen -> Byte]

\* exportPublicKeyBase64(publicKey)
exportPublicKeyBase64(publicKey) == arrayBufferToBase64(publicKey)

\* importPublicKeyBase64(base64)
importPublicKeyBase64(base64) == base64ToArrayBuffer(base64)

\* A secret that depends on which side computes it (C4 rests on ECDH giving
\* both sides the same secret).
deriveOneSidedSecret(privateKey, publicKey) ==
  <<"ecdh", {privateKey, publicKey[2] + 10}>>

\* deriveSharedSecret(privateKey, publicKey): ECDH, the same secret for
\* (a, pub b) and (b, pub a) and different for any other pair.
deriveSharedSecret(privateKey, publicKey) == <<"ecdh", {privateKey, publicKey[2]}>>

\* deriveSymmetricKey(sharedSecret, salt, info = 'opticalsend-v1'): HKDF
deriveSymmetricKey(sharedSecret, salt) ==
  <<"hkdf", sharedSecret, salt, "opticalsend-v1">>

\* The bytes a hex string stands for.
HexToBytes(hex) == <<"bytes", hex>>

\* deriveSaltFromNonces(senderNonceBase64, receiverNonceBase64)
deriveSaltFromNonces(senderNonceBase64, receiverNonceBase64) ==
  LET a == base64ToArrayBuffer(senderNonceBase64)
      b == base64ToArrayBuffer(receiverNonceBase64)
  IN  HexToBytes(computeSHA256(a \o b))

MAX_QR_BYTES == 2953

\* Math.floor(MAX_QR_BYTES * QR_CHUNK_SAFETY_FACTOR), the factor being 0.6
calculateSafeQRChunkSize == (MAX_QR_BYTES * 6) \div 10

\* createSenderHandshakeFrame(pubKeyBase64); sid and nonce are its random draws.
createSenderHandshakeFrame(pubKeyBase64, sid, nonce) ==
  [type |-> "handshake", role |-> "sender", fileSessionId |-> uuidv4(sid),
   pubKey |-> pubKeyBase64, nonce |-> arrayBufferToBase64(nonce),
   offeredCompression |-> <<"gzip", "none">>,
   supportedBlockSizes |-> <<calculateSafeQRChunkSize, 512, 1024>>,
   ack |-> FALSE, requestedOptions |-> [blockSize |-> 0, preferCompression |-> ""]]

\* createReceiverHandshakeFrame(fileSessionId, pubKeyBase64, blockSize,
\* preferCompression); nonce is its random draw.
createReceiverHandshakeFrame(fileSessionId, pubKeyBase64, blockSize, preferCompression, nonce) ==
  [type |-> "handshake", role |-> "receiver", fileSessionId |-> fileSessionId,
   pubKey |-> pubKeyBase64, nonce |-> arrayBufferToBase64(nonce),
   offeredCompression |-> <<"gzip", "none">>,
   supportedBlockSizes |-> <<blockSize>>,
   ack |-> TRUE,
   requestedOptions |-> [blockSize |-> blockSize,
                         preferCompression |-> preferCompression]]

NoKey == <<"none">>

NoFrame == [createSenderHandshakeFrame(exportPublicKeyBase64(PublicKey(0)), 0,
                                       [i \in 1..NonceLen |-> 0])
              EXCEPT !.type = "none"]

\* respondToSenderFrame(senderFrame); the receiver draws the key pair of
\* receiverPriv and the nonce receiverNonce, createReceiverHandshakeFrame draws
\* frameNonce.
respondToSenderFrame(senderFrame, receiverPriv, receiverNonce, frameNonce) ==
  IF senderFrame.type # "handshake" \/ senderFrame.role # "sender"
  THEN [ok |-> FALSE, error |-> "Invalid sender handshake frame",
        responseFrame |-> NoFrame, symKey |-> NoKey]
  ELSE LET receiverPubKeyBase64 == exportPublicKeyBase64(PublicKey(receiverPriv))
           receiverNonceBase64 == arrayBufferToBase64(receiverNonce)
           senderPubKey == importPublicKeyBase64(senderFrame.pubKey)
           sharedSecret == deriveSharedSecret(receiverPriv, senderPubKey)
           salt == deriveSaltFromNonces(senderFrame.nonce, receiverNonceBase64)
           responseFrame ==
             createReceiverHandshakeFrame(
               senderFrame.fileSessionId, receiverPubKeyBase64,
               IF Len(senderFrame.supportedBlockSizes) > 0
                    /\ senderFrame.supportedBlockSizes[1] # 0
               THEN senderFrame.supportedBlockSizes[1] ELSE 1024,
               IF Len(senderFrame.offeredCompression) > 0
                    /\ senderFrame.offeredCompression[1] # ""
               THEN senderFrame.offeredCompression[1] ELSE "gzip",
               frameNonce)
       IN  [ok |-> TRUE, error |-> "",
            responseFrame |-> [responseFrame EXCEPT !.nonce = receiverNonceBase64],
            symKey |-> deriveSymmetricKey(sharedSecret, salt)]

\* finalizeSenderHandshake(senderKeyPair, senderNonceBase64, responseFrame)
finalizeSenderHandshake(senderPriv, senderNonceBase64, responseFrame) ==
  IF responseFrame.type # "handshake" \/ responseFrame.role # "receiver"
  THEN [ok |-> FALSE, error |-> "Invalid receiver handshake frame",
        symKey |-> NoKey]
  ELSE LET receiverPubKey == importPublicKeyBase64(responseFrame.pubKey)
           sharedSecret == deriveSharedSecret(senderPriv, receiverPubKey)
           salt == deriveSaltFromNonces(senderNonceBase64, responseFrame.nonce)
       IN  [ok |-> TRUE, error |-> "",
            symKey |-> deriveSymmetricKey(sharedSecret, salt)]

\* What may happen to a handshake frame between the two screens: nothing, its
\* nonce or public key replaced, another kind of frame scanned instead, or the
\* frame of another session scanned.
FrameModes == {"valid", "nonce", "pubKey", "role", "session"}

TamperFrame(frame, mode) ==
  CASE mode = "nonce" ->
         [frame EXCEPT !.nonce =
            arrayBufferToBase64([base64ToArrayBuffer(@) EXCEPT ![1] = 1 - @])]
    [] mode = "pubKey" ->
         [frame EXCEPT !.pubKey =
            exportPublicKeyBase64(PublicKey(
              CHOOSE k \in PrivKeys : k # importPublicKeyBase64(@)[2]))]
    [] mode = "role" ->
         [frame EXCEPT !.role = IF @ = "sender" THEN "receiver" ELSE "sender"]
    [] mode = "session" ->
         [frame EXCEPT !.fileSessionId = uuidv4(0)]
    [] OTHER -> frame

InitHandshake ==
  /\ Init
  /\ file = <<>>
  /\ bsize = 1
  /\ pipeline.symKey = sKey

\* startHandshake (sender): key pair, createSenderHandshakeFrame, the nonce of
\* the frame is kept for finalizing.
StartHandshake ==
  /\ hs.phase = "none"
  /\ \E senderPriv \in PrivKeys, sid \in 1..2, nonce \in Nonces :
       LET frame == createSenderHandshakeFrame(
                      exportPublicKeyBase64(PublicKey(senderPriv)), sid, nonce)
       IN  hs' = [phase |-> "offered", senderPriv |-> senderPriv,
                  senderNonceBase64 |-> frame.nonce, senderFrame |-> frame,
                  scannedSenderFrame |-> NoFrame, receiverPriv |-> 0,
                  frameNonce |-> frame.nonce,
                  responseFrame |-> NoFrame, scannedResponseFrame |-> NoFrame,
                  receiverKey |-> NoKey, senderKey |-> NoKey, error |-> ""]
  /\ UNCHANGED <<signaling, qr, squeue, sessions, channelVars, sel, clockVars, rtracker, rsent, pc, file, bsize, sKey, blocks, dbOpen, journal, pipeline, last,
                 assembled, clean, senderVars>>

\* The receiver scans a sender frame and runs respondToSenderFrame on it.
RespondToSenderFrame ==
  /\ hs.phase = "offered"
  /\ \E mode \in FrameModes, receiverPriv \in PrivKeys,
        receiverNonce \in Nonces, frameNonce \in Nonces :
       LET scanned == TamperFrame(hs.senderFrame, mode)
           resp == respondToSenderFrame(scanned, receiverPriv, receiverNonce,
                                        frameNonce)
       IN  hs' = [hs EXCEPT !.phase = IF resp.ok THEN "responded" ELSE "failed",
                            !.scannedSenderFrame = scanned,
                            !.receiverPriv = receiverPriv,
                            !.frameNonce = arrayBufferToBase64(frameNonce),
                            !.responseFrame = resp.responseFrame,
                            !.receiverKey = resp.symKey,
                            !.error = resp.error]
  /\ UNCHANGED <<signaling, qr, squeue, sessions, channelVars, sel, clockVars, rtracker, rsent, pc, file, bsize, sKey, blocks, dbOpen, journal, pipeline, last,
                 assembled, clean, senderVars>>

\* finalizeHandshake (sender): the scanned response goes to
\* finalizeSenderHandshake with the sender's key pair and its frame's nonce.
FinalizeSenderHandshake ==
  /\ hs.phase = "responded"
  /\ \E mode \in FrameModes :
       LET scanned == TamperFrame(hs.responseFrame, mode)
           fin == finalizeSenderHandshake(hs.senderPriv, hs.senderNonceBase64,
                                          scanned)
       IN  hs' = [hs EXCEPT !.phase = IF fin.ok THEN "done" ELSE "failed",
                            !.scannedResponseFrame = scanned,
                            !.senderKey = fin.symKey,
                            !.error = fin.error]
  /\ UNCHANGED <<signaling, qr, squeue, sessions, channelVars, sel, clockVars, rtracker, rsent, pc, file, bsize, sKey, blocks, dbOpen, journal, pipeline, last,
                 assembled, clean, senderVars>>

NextHandshake ==
  \/ StartHandshake
  \/ RespondToSenderFrame
  \/ FinalizeSenderHandshake

SpecHandshake == InitHandshake /\ [][NextHandshake]_vars

\* ------------------------------------------- stand-alone block tracker
\* Payloads of the records handed to addBlock.
TrackerData == {<<0>>, <<1, 1>>}

InitTracker ==
  /\ InitWith({TRUE}, 0..MaxTrackerBlocks)
  /\ file = <<>>
  /\ bsize = 1
  /\ pipeline.symKey = sKey

\* tracker.addBlock(seq, record), any sequence number, in range or not
AddBlock ==
  /\ \E seq \in 0..(MaxTrackerBlocks + 1), data \in TrackerData :
       rtracker' = addBlock(rtracker, seq, data)
  /\ UNCHANGED <<signaling, qr, squeue, sessions, channelVars, sel, clockVars, pc, file, bsize, sKey, blocks, dbOpen, journal, pipeline, last,
                 assembled, clean, senderVars, hs, rsent>>

NextTracker == AddBlock

SpecTracker == InitTracker /\ [][NextTracker]_vars

\* ------------------------------------------------ TransferTracker clock
InitClock ==
  /\ InitWith({TRUE}, {0})
  /\ file = <<>>
  /\ bsize = 1
  /\ pipeline.symKey = sKey

\* A millisecond passes; it counts as paused time when the session is paused.
Tick ==
  /\ now < Epoch + MaxTime
  /\ now' = now + 1
  /\ lapse' = [lapse EXCEPT !.paused = IF timer.session.state = "paused"
                                       THEN @ + 1 ELSE @]
  /\ UNCHANGED <<signaling, qr, squeue, sessions, channelVars, sel, timer, rtracker, pc, file, bsize, sKey, blocks, dbOpen, journal,
                 pipeline, last, assembled, clean, senderVars, hs, rsent>>

\* tracker.pause()
TrackerPause ==
  /\ lapse.calls < MaxClockCalls
  /\ timer' = pauseAt(timer, now)
  /\ lapse' = [lapse EXCEPT !.calls = @ + 1]
  /\ UNCHANGED <<signaling, qr, squeue, sessions, channelVars, sel, now, rtracker, pc, file, bsize, sKey, blocks, dbOpen, journal,
                 pipeline, last, assembled, clean, senderVars, hs, rsent>>

\* tracker.resume()
TrackerResume ==
  /\ lapse.calls < MaxClockCalls
  /\ timer' = resumeAt(timer, now)
  /\ lapse' = [lapse EXCEPT !.calls = @ + 1]
  /\ UNCHANGED <<signaling, qr, squeue, sessions, channelVars, sel, now, rtracker, pc, file, bsize, sKey, blocks, dbOpen, journal,
                 pipeline, last, assembled, clean, senderVars, hs, rsent>>

NextClock ==
  \/ Tick
  \/ TrackerPause
  \/ TrackerResume

SpecClock == InitClock /\ [][NextClock]_vars

\* ------------------------------------------- stand-alone compression choice
InitCompression ==
  /\ InitWith({TRUE}, {0})
  /\ file = <<>>
  /\ bsize = 1
  /\ pipeline.symKey = sKey

\* selectBestCompression(data) on any input; pako.gzip returns or throws.
SelectBestCompression ==
  /\ \E n \in 0..MaxDataLen : \E data \in [1..n -> Byte], threw \in BOOLEAN :
       sel' = [called |-> TRUE, data |-> data, threw |-> threw,
               result |-> selectBestCompressionCatching(data, threw)]
  /\ UNCHANGED <<signaling, qr, squeue, sessions, channelVars, clockVars, rtracker, pc, file, bsize, sKey, blocks, dbOpen, journal,
                 pipeline, last, assembled, clean, senderVars, hs, rsent>>

NextCompression == SelectBestCompression

SpecCompression == InitCompression /\ [][NextCompression]_vars

\* ------------------------------------- concurrent sends on a data channel
InitChannel ==
  /\ InitWith({TRUE}, {0})
  /\ file = <<>>
  /\ bsize = 1
  /\ pipeline.symKey = sKey

\* sendBlockViaDataChannel(block, dataChannel) up to its first await:
\* sendBlockAnnouncement -> sendMessage hands the announcement to the channel,
\* or throws on a channel that is not open and the catch ends the call.
SendBlockAnnouncement(i) ==
  /\ flights[i].pc = "idle"
  /\ \E seq \in ChannelSeqs :
       IF chan.readyState # "open"
       THEN /\ flights' = [flights EXCEPT ![i] = [@ EXCEPT !.pc = "failed", !.seq = seq]]
            /\ UNCHANGED chan
       ELSE /\ chan' = dcSend(chan, [via |-> "announce", seq |-> seq],
                              AnnouncementBytes)
            /\ flights' = [flights EXCEPT ![i] = [@ EXCEPT !.pc = "announced", !.seq = seq]]
  /\ UNCHANGED <<signaling, qr, squeue, sessions, sel, clockVars, rtracker, pc, file, bsize, sKey, blocks, dbOpen, journal,
                 pipeline, last, assembled, clean, senderVars, hs, rsent>>

\* The payload goes to the channel (dc.send throws on a channel that is not
\* open and the catch of sendBlockViaDataChannel ends the call).
HandOver(i) ==
  IF chan.readyState # "open"
  THEN /\ flights' = [flights EXCEPT ![i].pc = "failed"]
       /\ UNCHANGED chan
  ELSE /\ chan' = dcSend(chan, [via |-> "binary", seq |-> flights[i].seq],
                         PayloadBytes)
       /\ flights' = [flights EXCEPT ![i].pc = "sent"]

\* The call resumes after the announcement: sendBinary checks readyState, then
\* either starts waiting or hands the payload over.
SendBinary(i) ==
  /\ flights[i].pc = "announced"
  /\ IF chan.readyState = "open" /\ mustWait(chan)
     THEN /\ flights' = [flights EXCEPT ![i].pc = "waiting", ![i].held = TRUE]
          /\ UNCHANGED chan
     ELSE HandOver(i)
  /\ UNCHANGED <<signaling, qr, squeue, sessions, sel, clockVars, rtracker, pc, file, bsize, sKey, blocks, dbOpen, journal,
                 pipeline, last, assembled, clean, senderVars, hs, rsent>>

\* The 10 ms timer of the wait loop fires: wait again or hand the payload over.
Poll(i) ==
  /\ flights[i].pc = "waiting"
  /\ IF mustWait(chan)
     THEN UNCHANGED <<chan, flights>>
     ELSE HandOver(i)
  /\ UNCHANGED <<signaling, qr, squeue, sessions, sel, clockVars, rtracker, pc, file, bsize, sKey, blocks, dbOpen, journal,
                 pipeline, last, assembled, clean, senderVars, hs, rsent>>

\* The network transmits the oldest buffered message.
Drain ==
  /\ chan.readyState = "open"
  /\ chan.buffer # <<>>
  /\ chan' = [chan EXCEPT !.buffer = Tail(@)]
  /\ UNCHANGED <<signaling, qr, squeue, sessions, flights, sel, clockVars, rtracker, pc, file, bsize, sKey, blocks, dbOpen,
                 journal, pipeline, last, assembled, clean, senderVars, hs, rsent>>

\* The channel closes; bufferedAmount keeps its value.
Close ==
  /\ chan.readyState = "open"
  /\ chan' = [chan EXCEPT !.readyState = "closed"]
  /\ UNCHANGED <<signaling, qr, squeue, sessions, flights, sel, clockVars, rtracker, pc, file, bsize, sKey, blocks, dbOpen,
                 journal, pipeline, last, assembled, clean, senderVars, hs, rsent>>

NextChannel ==
  \/ \E i \in Sends : SendBlockAnnouncement(i)
  \/ \E i \in Sends : SendBinary(i)
  \/ \E i \in Sends : Poll(i)
  \/ Drain
  \/ Close

\* A resumed call runs and the timer of a waiting call keeps firing.
SpecChannel ==
  /\ InitChannel
  /\ [][NextChannel]_vars
  /\ \A i \in Sends : WF_vars(SendBinary(i)) /\ WF_vars(Poll(i))

\* ------------------------------------------------- stand-alone block store
\* Rows handed to storeBlock: two files, sequences 0 and 1, any state.
StoreRows ==
  {[fileId |-> f, seq |-> q, header |-> JSONstringify([seq |-> q]),
    payload |-> <<>>, state |-> st, decompressed |-> <<>>] :
     f \in {"F1", "F2"}, q \in 0..1, st \in {"pending", "completed", "failed"}}

InitStore ==
  /\ InitWith({TRUE}, {0})
  /\ file = <<>>
  /\ bsize = 1
  /\ pipeline.symKey = sKey

\* blockStore.storeBlock(row) on the initialized store
StoreBlock ==
  /\ dbOpen
  /\ \E row \in StoreRows : journal' = storeBlock(journal, row)
  /\ UNCHANGED <<signaling, qr, squeue, sessions, channelVars, sel, clockVars, rtracker, pc, file, bsize, sKey, blocks,
                 dbOpen, pipeline, last, assembled, clean, senderVars, hs, rsent>>

NextStore == StoreBlock

SpecStore == InitStore /\ [][NextStore]_vars

\* ------------------------------------------------- stand-alone send queue
InitQueue ==
  /\ InitWith({TRUE}, {0})
  /\ file = <<>>
  /\ bsize = 1
  /\ pipeline.symKey = sKey

\* queue.add(block) for a block of the file, before or while the queue is driven
QueueAdd ==
  /\ ~squeue.ended
  /\ \E seq \in 0..(MaxQueueBlocks - 1) :
       squeue' = [squeue EXCEPT !.sq = queueAdd(@, QueuedBlock(seq)),
                                !.added = @ \cup {<<TheFile, seq>>}]
  /\ UNCHANGED <<signaling, qr, sessions, channelVars, sel, clockVars, rtracker, pc, file, bsize, sKey,
                 blocks, dbOpen, journal, pipeline, last, assembled, clean,
                 senderVars, hs, rsent>>

\* One turn of the driver: getNext(), and markSent for the block it returned.
Drive ==
  /\ ~squeue.ended
  /\ Len(squeue.taken) < MaxDrives
  /\ LET block == getNext(squeue.sq)
     IN  IF block = Undefined
         THEN squeue' = [squeue EXCEPT !.ended = TRUE]
         ELSE \E medium \in {"qr", "wifi"} :
                squeue' = [squeue EXCEPT
                             !.sq = markSent(@, block.seq, medium),
                             !.taken = Append(@, block.seq)]
  /\ UNCHANGED <<signaling, qr, sessions, channelVars, sel, clockVars, rtracker, pc, file, bsize, sKey,
                 blocks, dbOpen, journal, pipeline, last, assembled, clean,
                 senderVars, hs, rsent>>

NextQueue ==
  \/ QueueAdd
  \/ Drive

SpecQueue == InitQueue /\ [][NextQueue]_vars

\* ------------------------------------------------- marks on the send queue
\* The files whose blocks are queued and the sequence numbers of their blocks.
QueueFiles == {TheFile, "F2"}

MarkSeqs == {0, 1}

\* queue.add(block) for a block of one of the files, every block once (the
\* blocks initializeSenderPipeline builds: each file's are numbered from 0)
QueueAddOf ==
  \E fileId \in QueueFiles, seq \in MarkSeqs :
    /\ <<fileId, seq>> \notin squeue.added
    /\ squeue' = [squeue EXCEPT
                    !.sq = queueAdd(@, [QueuedBlock(seq) EXCEPT !.fileId = fileId]),
                    !.added = @ \cup {<<fileId, seq>>}]
    /\ UNCHANGED <<signaling, qr, sessions, channelVars, sel, clockVars, rtracker, pc, file, bsize,
                   sKey, blocks, dbOpen, journal, pipeline, last, assembled, clean,
                   senderVars, hs, rsent>>

\* queue.markSent(seq, medium) for a block the queue holds
MarkSent ==
  \E b \in squeue.sq.queue, medium \in {"qr", "wifi"} :
    /\ b.attempts < MaxSends
    /\ squeue' = [squeue EXCEPT !.sq = markSent(@, b.seq, medium)]
    /\ UNCHANGED <<signaling, qr, sessions, channelVars, sel, clockVars, rtracker, pc, file, bsize,
                   sKey, blocks, dbOpen, journal, pipeline, last, assembled, clean,
                   senderVars, hs, rsent>>

\* queue.markCompleted(seq): an ACK for a block the queue holds
MarkCompleted ==
  \E b \in squeue.sq.queue :
    /\ squeue' = [squeue EXCEPT !.sq = markCompleted(@, b.seq)]
    /\ UNCHANGED <<signaling, qr, sessions, channelVars, sel, clockVars, rtracker, pc, file, bsize,
                   sKey, blocks, dbOpen, journal, pipeline, last, assembled, clean,
                   senderVars, hs, rsent>>

\* queue.markFailed(seq, error): a NACK for a block the queue holds
MarkFailed ==
  \E b \in squeue.sq.queue :
    /\ squeue' = [squeue EXCEPT !.sq = markFailed(@, b.seq, "NACK")]
    /\ UNCHANGED <<signaling, qr, sessions, channelVars, sel, clockVars, rtracker, pc, file, bsize,
                   sKey, blocks, dbOpen, journal, pipeline, last, assembled, clean,
                   senderVars, hs, rsent>>

NextMarks ==
  \/ QueueAddOf
  \/ MarkSent
  \/ MarkCompleted
  \/ MarkFailed

SpecMarks == InitQueue /\ [][NextMarks]_vars

\* ----------------------------------------------------- signaling runs
InitSignaling ==
  /\ InitWith({TRUE}, {0})
  /\ file = <<>>
  /\ bsize = 1
  /\ pipeline.symKey = sKey

\* server.handleConnection(peerId, send)
HandleConnection(peerId) ==
  /\ LET r == handleConnection(signaling.server, peerId)
     IN  signaling' = [signaling EXCEPT
                         !.server = r.server,
                         !.received[peerId] = @ \o r.sends]
  /\ UNCHANGED <<qr, squeue, sessions, channelVars, sel, clockVars, rtracker, pc, file,
                 bsize, sKey, blocks, dbOpen, journal, pipeline, last, assembled,
                 clean, senderVars, hs, rsent>>

\* The message of the next handleMessage call for a target ("": no target).
SignalingMessage(targetPeerId, type) ==
  [type |-> type, targetPeerId |-> targetPeerId, n |-> signaling.calls]

\* server.handleMessage(msg)
HandleMessage(targetPeerId, type) ==
  /\ signaling.calls < MaxSignals
  /\ LET r == handleMessage(signaling.server, SignalingMessage(targetPeerId, type))
     IN  signaling' = [signaling EXCEPT
                         !.server = r.server,
                         !.calls = @ + 1,
                         !.received = IF targetPeerId = "" THEN @
                                      ELSE [@ EXCEPT ![targetPeerId] = @ \o r.sends]]
  /\ UNCHANGED <<qr, squeue, sessions, channelVars, sel, clockVars, rtracker, pc, file,
                 bsize, sKey, blocks, dbOpen, journal, pipeline, last, assembled,
                 clean, senderVars, hs, rsent>>

\* server.disconnectPeer(peerId)
DisconnectPeer(peerId) ==
  /\ signaling' = [signaling EXCEPT !.server = disconnectPeer(@, peerId)]
  /\ UNCHANGED <<qr, squeue, sessions, channelVars, sel, clockVars, rtracker, pc, file,
                 bsize, sKey, blocks, dbOpen, journal, pipeline, last, assembled,
                 clean, senderVars, hs, rsent>>

NextSignaling ==
  \/ \E peerId \in Peers : HandleConnection(peerId)
  \/ \E targetPeerId \in Peers \cup {""}, type \in {"offer", "answer"} :
       HandleMessage(targetPeerId, type)
  \/ \E peerId \in Peers : DisconnectPeer(peerId)

SpecSignaling == InitSignaling /\ [][NextSignaling]_vars

\* ------------------------------------------------------- visual framing
\* Frame budgets: the default safe chunk size, the budget of sendBlockViaQR,
\* and one that leaves room for two payload bytes per frame.
QRBudgets == {calculateSafeQRChunkSize, 256, HeaderJsonChars + 200 + 3}

\* chunkBlockForQR(block.header, block.payload, maxChunkBytes) for a block of
\* the sender
ChunkBlockForQR ==
  /\ pc = "transfer"
  /\ \E i \in 1..Len(blocks), maxChunkBytes \in QRBudgets :
       qr' = [called |-> TRUE, seq |-> blocks[i].seq,
              maxChunkBytes |-> maxChunkBytes,
              frames |-> chunkBlockForQR(blocks[i].header, PayloadOf(blocks[i]),
                                         maxChunkBytes)]
  /\ UNCHANGED <<signaling, squeue, sessions, channelVars, sel, clockVars, rtracker, pc, file, bsize,
                 sKey, blocks, dbOpen, journal, pipeline, last, assembled, clean,
                 senderVars, hs, rsent>>

NextQR ==
  \/ CreateBlocks
  \/ ChunkBlockForQR

SpecQR == InitSession /\ [][NextQR]_vars

\* ------------------------------------------------------------------ claims
\* The bytes a block was built from: decrypt with the sender's key, then decompress.
PlainOf(block) ==
  decompress(decryptAESGCM(block.payload, sKey, block.header.iv).data,
             block.header.compression).data

\* k is the least number of blocks of b bytes that cover n bytes.
IsCeil(k, n, b) == k * b >= n /\ (k = 0 \/ (k - 1) * b < n)

\* File bytes [i*b, min((i+1)*b, n)) of block i.
Slice(i) == SubSeq(file, i * bsize + 1, Min((i + 1) * bsize, Len(file)))

\* The block object carries the header and payload the sender produced.
Unmodified(block) ==
  /\ block.fileId = TheFile
  /\ block.seq + 1 \in 1..Len(blocks)
  /\ block.header = blocks[block.seq + 1].header
  /\ block.payload = blocks[block.seq + 1].payload

\* The block object carries a payload that differs from the one produced.
PayloadAltered(block) ==
  /\ block.fileId = TheFile
  /\ block.seq + 1 \in 1..Len(blocks)
  /\ block.payload # blocks[block.seq + 1].payload

\* Every journal row stems from a block as the sender produced it.
NoForgedRow ==
  \A r \in journal : JSONparse(r.header) = blocks[r.seq + 1].header

\* C1: round trip. When every block of a file of at least one byte has been
\* delivered unmodified to a receiver holding the sender's key (in any order,
\* duplicates and rejected frames in between) and no altered block was
\* accepted, assembly with the sender's manifest returns exactly the file.
C1_RoundTrip ==
  (/\ pc = "done"
   /\ Len(file) >= 1
   /\ pipeline.symKey = sKey
   /\ clean = 1..Len(blocks)
   /\ NoForgedRow
   /\ assembled.manifest = FileManifest)
  => (assembled.ok /\ assembled.data = file)

\* Witness of C1: a file of several blocks assembled after out-of-order arrival.
C1_Witness ==
  /\ pc = "done"
  /\ Len(blocks) >= 2
  /\ clean = 1..Len(blocks)
  /\ last.n = Len(blocks)
  /\ last.block.seq = 0
  /\ assembled.ok
  /\ assembled.data = file

\* The journal holds the row of an earlier delivery of this very block.
Delivered(block) ==
  \E r \in journal :
    /\ r.fileId = block.fileId
    /\ r.seq = block.seq
    /\ JSONparse(r.header) = block.header
    /\ r.payload = block.payload

\* C2: idempotent delivery. A call of processReceivedBlock that accepts an
\* unmodified block whose row is already in the journal (a retransmit, the
\* same block over the other channel, the same object once more) leaves the
\* journal as it was: one row for (fileId, seq) with the same header, payload,
\* decompressed bytes and state.
C2_IdempotentDelivery ==
  [][(/\ last'.n # last.n
      /\ last'.ret
      /\ Unmodified(last'.block)
      /\ Delivered(last'.block))
     => journal' = journal]_vars

\* C5: corrupted ciphertext. A call on a block whose encrypted payload was
\* altered returns false, leaves the block failed, unverified and with an error
\* recorded, and writes nothing to the journal.
C5_CorruptedCiphertext ==
  [][(last'.n # last.n /\ PayloadAltered(last'.block))
     => (/\ ~last'.ret
         /\ last'.block.state = "failed"
         /\ last'.block.verified = FALSE
         /\ last'.block.lastError # "none"
         /\ journal' = journal)]_vars

\* Witness of C5: a block with an altered payload byte has been processed after
\* a block of the same file had been stored.
C5_Witness ==
  /\ last.n > 1
  /\ PayloadAltered(last.block)
  /\ last.block.payload.tag = blocks[last.block.seq + 1].payload.tag
  /\ journal # {}

\* The payload decrypts under the receiver's key but its hash is not header.checksum.
HashDiffers(block) ==
  LET d == decryptAESGCM(block.payload, pipeline.symKey, block.header.iv)
  IN  d.ok /\ computeSHA256(d.data) # block.header.checksum

\* C6: checksum mismatch. A call on a block that decrypts but whose
\* header.checksum differs from the hash of the decrypted bytes returns false
\* with the hash-mismatch error, sets the block failed, adds exactly one to its
\* retransmit counter and writes nothing to the journal.
C6_ChecksumMismatch ==
  [][(last'.n # last.n /\ HashDiffers(last'.block))
     => (/\ ~last'.ret
         /\ last'.block.state = "failed"
         /\ last'.block.lastError = "Checksum mismatch"
         /\ last'.block.retransmitCount =
              (IF last'.fresh THEN 0 ELSE last.block.retransmitCount) + 1
         /\ journal' = journal)]_vars

\* Witness of C6: the same object with a wrong checksum was processed twice.
C6_Witness ==
  /\ last.n > 0
  /\ HashDiffers(last.block)
  /\ ~last.fresh
  /\ last.block.retransmitCount = 2
  /\ last.block.lastError = "Checksum mismatch"

\* C8: header/body binding. Every produced block decrypts under the sender's
\* key with header.iv to bytes whose hash is header.checksum and fails to
\* decrypt under any other key; a call on an unmodified block returns true
\* exactly when the receiver holds the sender's key.
C8_HeaderBodyBinding ==
  /\ \A i \in 1..Len(blocks) :
       LET d == decryptAESGCM(blocks[i].payload, sKey, blocks[i].header.iv)
       IN  /\ d.ok
           /\ computeSHA256(d.data) = blocks[i].header.checksum
           /\ \A k \in Keys \ {sKey} :
                ~decryptAESGCM(blocks[i].payload, k, blocks[i].header.iv).ok
  /\ (last.n > 0 /\ Unmodified(last.block))
       => (last.ret <=> pipeline.symKey = sKey)

\* Witness of C8: an unmodified block was refused by a receiver with another key.
C8_Witness ==
  /\ last.n > 0
  /\ Unmodified(last.block)
  /\ pipeline.symKey # sKey
  /\ ~last.ret
  /\ last.block.lastError = "OperationError"

\* C9: chunking. n bytes with block size b give ceil(n/b) blocks; block i has
\* seq i, totalSeq ceil(n/b), the file id, rawSize = its slice length and is
\* built from bytes [i*b, min((i+1)*b, n)); k*b bytes give k full blocks and
\* k*b+1 bytes give k+1 blocks with a last block of one byte.
C9_Chunking ==
  pc # "init" =>
    /\ IsCeil(Len(blocks), Len(file), bsize)
    /\ \A i \in 1..Len(blocks) :
         /\ blocks[i].seq = i - 1
         /\ blocks[i].header.seq = i - 1
         /\ blocks[i].totalSeq = Len(blocks)
         /\ blocks[i].header.totalSeq = Len(blocks)
         /\ blocks[i].fileId = TheFile
         /\ blocks[i].header.fileId = TheFile
         /\ blocks[i].header.rawSize = Len(Slice(i - 1))
         /\ PlainOf(blocks[i]) = Slice(i - 1)
    /\ \A k \in 0..MaxFileLen :
         /\ (Len(file) = k * bsize =>
               /\ Len(blocks) = k
               /\ (k > 0 => blocks[k].header.rawSize = bsize))
         /\ (Len(file) = k * bsize + 1 =>
               /\ Len(blocks) = k + 1
               /\ blocks[k + 1].header.rawSize = 1)

\* Witness of C9: a file of k*b+1 bytes with b > 1 cut into k+1 >= 2 blocks.
C9_Witness ==
  /\ pc # "init"
  /\ bsize > 1
  /\ Len(file) = bsize + 1
  /\ Len(blocks) = 2
  /\ blocks[2].header.rawSize = 1

\* C10: zero-byte file. An empty file gives no blocks, and assembly with the
\* manifest totalBlocks = 0, sha256 = hash of no bytes yields an empty buffer.
C10_ZeroByteFile ==
  (pc = "done" /\ Len(file) = 0 /\ assembled.manifest = FileManifest)
  => (Len(blocks) = 0 /\ assembled.ok /\ assembled.data = <<>>)

\* The sequences of the journal rows of the receiver's file.
JournalSeqs == {r.seq : r \in getBlocksForFile(journal, pipeline.fileId)}

\* C3: sequence density at completion. Whenever the receiver session is
\* completed, the journal holds exactly totalSeq rows for the file, with the
\* sequences 0 .. totalSeq - 1.
C3_SequenceDensity ==
  pipeline.tracker.state = "completed" =>
    /\ JournalSeqs = 0..(pipeline.totalBlocks - 1)
    /\ Cardinality(getBlocksForFile(journal, pipeline.fileId)) = pipeline.totalBlocks

\* README, Retransmission Policy: "Max attempts: 5 per block".
MaxRetransmitsPerBlock == 5

\* C7: retransmit cap. No block's retransmit counter ever exceeds 5, and a block
\* that has been NACKed 5 times is in the terminal state skipped.
C7_RetransmitCap ==
  \A i \in 1..Len(blocks) :
    /\ blocks[i].retransmitCount <= MaxRetransmitsPerBlock
    /\ blocks[i].retransmitCount = MaxRetransmitsPerBlock =>
         blocks[i].state = "skipped"

\* The exchange was honest: each side scanned the frame the other produced.
HonestExchange ==
  /\ hs.phase = "done"
  /\ hs.scannedSenderFrame = hs.senderFrame
  /\ hs.scannedResponseFrame = hs.responseFrame

\* C4: key agreement. After an honest exchange both sides hold the same session
\* key: HKDF of the ECDH secret of the two key pairs with the salt
\* hash(N_S || N_R), N_S the sender's nonce and N_R the nonce carried in the
\* response frame.
C4_KeyAgreement ==
  HonestExchange =>
    /\ hs.senderKey = hs.receiverKey
    /\ hs.senderKey # NoKey
    /\ hs.senderKey =
         deriveSymmetricKey(
           <<"ecdh", {hs.senderPriv, hs.receiverPriv}>>,
           HexToBytes(computeSHA256(
             base64ToArrayBuffer(hs.senderFrame.nonce)
               \o base64ToArrayBuffer(hs.responseFrame.nonce))))

\* An honest exchange in which the nonce createReceiverHandshakeFrame drew is
\* not the receiver's nonce, the two nonces differ and so do the key pairs.
C4_Witness ==
  /\ HonestExchange
  /\ hs.frameNonce # hs.responseFrame.nonce
  /\ hs.senderFrame.nonce # hs.responseFrame.nonce
  /\ hs.senderPriv # hs.receiverPriv

\* The sequence numbers the tracker has received.
ReceivedSeqs == {rtracker.received[i].seq : i \in 1..Len(rtracker.received)}

\* The payloads of sequences seq .. n - 1, each looked up by its number.
RECURSIVE AscendingBytes(_, _)
AscendingBytes(seq, n) ==
  IF seq >= n THEN <<>>
  ELSE (LET e == CHOOSE x \in {rtracker.received[i] : i \in 1..Len(rtracker.received)} :
                   x.seq = seq
        IN  e.data) \o AscendingBytes(seq + 1, n)

\* C11: out-of-order arrival. Once addBlock has been called for exactly the
\* sequences 0 .. n-1 of a tracker expecting n blocks, in whatever order,
\* isComplete() is true and reassembleFile() returns the blocks' bytes
\* concatenated in ascending sequence order.
C11_OutOfOrderArrival ==
  ReceivedSeqs = 0..(rtracker.totalExpected - 1) =>
    /\ isComplete(rtracker)
    /\ reassembleFile(rtracker) =
         [null |-> FALSE, data |-> AscendingBytes(0, rtracker.totalExpected)]

\* Witness of C11: three blocks with different payloads arrived in the order
\* 2, 0, 1.
C11_Witness ==
  /\ rtracker.totalExpected = 3
  /\ Len(rtracker.received) = 3
  /\ rtracker.received[1].seq = 2
  /\ rtracker.received[2].seq = 0
  /\ rtracker.received[3].seq = 1
  /\ rtracker.received[1].data # rtracker.received[2].data
  /\ ~reassembleFile(rtracker).null

\* C12: tracker completeness. After any addBlock calls getMissingSequences()
\* lists exactly the sequences of [0, totalExpected) not added, isComplete() is
\* true exactly when that list is empty, and reassembleFile() returns null
\* while a sequence of [0, totalExpected) is missing.
C12_TrackerCompleteness ==
  LET missing == getMissingSequences(rtracker)
      missingSet == {missing[i] : i \in 1..Len(missing)}
  IN  /\ missingSet = (0..(rtracker.totalExpected - 1)) \ ReceivedSeqs
      /\ isComplete(rtracker) <=> missing = <<>>
      /\ missing # <<>> => reassembleFile(rtracker).null

\* C13: completed-block invariant. A received block in state completed has
\* verified = true, and the journal row of its (fileId, seq) holds its
\* decompressed payload and the state completed.
C13_CompletedBlock ==
  (last.n > 0 /\ last.block.state = "completed") =>
    /\ last.block.verified
    /\ \E r \in journal :
         /\ r.fileId = last.block.fileId
         /\ r.seq = last.block.seq
         /\ r.decompressed =
              decompress(decryptAESGCM(last.block.payload, pipeline.symKey,
                                       last.block.header.iv).data,
                         last.block.header.compression).data
         /\ r.state = "completed"

\* The journal has the row of the block: its payload and decompressed bytes.
Persisted(store, block) ==
  \E r \in store :
    /\ r.fileId = block.fileId
    /\ r.seq = block.seq
    /\ r.payload = block.payload
    /\ r.decompressed =
         decompress(decryptAESGCM(block.payload, pipeline.symKey,
                                  block.header.iv).data,
                    block.header.compression).data

\* C14: journal-before-completed ordering. A pipeline call marks the block
\* completed, counts it as completed and tracks it as received only when the
\* journal holds the row with its decrypted and decompressed payload; when the
\* write fails the block is failed and neither counted nor tracked.
C14_JournalBeforeCompleted ==
  [][last'.n # last.n =>
      /\ (\/ last'.block.state = "completed"
          \/ pipeline'.tracker.blocksCompleted # pipeline.tracker.blocksCompleted
          \/ pipeline'.blockTracker # pipeline.blockTracker)
         => (last'.ret /\ Persisted(journal', last'.block))
      /\ \A seq \in pipeline'.blockTracker : \E r \in journal' : r.seq = seq
      /\ pipeline'.tracker.blocksCompleted > 0 => journal' # {}
      /\ ~dbOpen =>
           /\ last'.block.state = "failed"
           /\ journal' = {}
           /\ pipeline'.tracker.blocksCompleted = 0
           /\ pipeline'.blockTracker = {}]_vars

\* Witness of C14: an unmodified block whose journal write failed.
C14_Witness ==
  /\ ~dbOpen
  /\ last.n > 0
  /\ Unmodified(last.block)
  /\ last.block.lastError = "DB not initialized"
  /\ last.block.state = "failed"
  /\ pipeline.tracker.blocksFailed = 1
  /\ pipeline.tracker.blocksCompleted = 0

\* C15: NACK on failure. A pipeline call that fails with an open data channel
\* sends exactly one NACK with the block's fileId, blockId and seq; a call that
\* succeeds sends no NACK.
C15_NackOnFailure ==
  [][last'.n # last.n =>
      /\ (~last'.ret /\ rsent'.channel = "open") =>
           /\ Len(rsent'.out) = 1
           /\ JSONparse(rsent'.out[1]).type = "nack"
           /\ JSONparse(rsent'.out[1]).fileId = last'.block.fileId
           /\ JSONparse(rsent'.out[1]).blockId = last'.block.id
           /\ JSONparse(rsent'.out[1]).seq = last'.block.seq
      /\ last'.ret =>
           \A i \in 1..Len(rsent'.out) : JSONparse(rsent'.out[i]).type # "nack"]_vars

\* Witness of C15: a NACK went out for a block that failed to decompress, after
\* a call that succeeded and one that failed to decrypt.
C15_Witness ==
  /\ rsent.channel = "open"
  /\ Len(rsent.out) = 1
  /\ ~last.ret
  /\ last.block.lastError = "incorrect header check"
  /\ JSONparse(rsent.out[1]).reason = "incorrect header check"

\* C16: ACK on success. A pipeline call that succeeds with an open data
\* channel sends an ACK with the block's seq and blockId.
C16_AckOnSuccess ==
  [][(last'.n # last.n /\ last'.ret /\ rsent'.channel = "open") =>
      \E i \in 1..Len(rsent'.out) :
        /\ JSONparse(rsent'.out[i]).type = "ack"
        /\ JSONparse(rsent'.out[i]).seq = last'.block.seq
        /\ JSONparse(rsent'.out[i]).blockId = last'.block.id]_vars

\* The decompressed payloads of the journal rows with header sequences
\* seq .. n - 1, one after the other.
RECURSIVE RowsBytes(_, _, _)
RowsBytes(store, seq, n) ==
  IF seq >= n THEN <<>>
  ELSE (CHOOSE r \in store : JSONparse(r.header).seq = seq).decompressed
         \o RowsBytes(store, seq + 1, n)

\* The journal has a row for every sequence of [0, n).
AllRows(store, n) ==
  \A seq \in 0..(n - 1) : \E r \in store : JSONparse(r.header).seq = seq

\* C17: assembly validation. A finalization returns a file only when the
\* journal has a row for every sequence of [0, manifest.totalBlocks) and the
\* hash of their decompressed payloads in ascending order is manifest.sha256;
\* otherwise assembly fails and the session is left failed with an error
\* reason, not completed.
C17_AssemblyValidation ==
  [][Finalize =>
      LET rows == getBlocksForFile(journal, pipeline.fileId)
          n == assembled'.manifest.totalBlocks
          valid == /\ AllRows(rows, n)
                   /\ computeSHA256(RowsBytes(rows, 0, n)) = assembled'.manifest.sha256
      IN  /\ assembled'.ok => (valid /\ assembled'.data = RowsBytes(rows, 0, n))
          /\ ~valid => ~assembled'.ok
          /\ assembled'.ok <=> pipeline'.tracker.state = "completed"
          /\ ~assembled'.ok =>
               /\ pipeline'.tracker.state = "failed"
               /\ pipeline'.tracker.errorReason = assembled'.error
               /\ assembled'.error \notin {"", "Assembling file..."}]_vars

\* Witness of C17: finalization failed on a hash mismatch with every block in
\* the journal.
C17_Witness ==
  /\ assembled.called
  /\ ~assembled.ok
  /\ assembled.error = "SHA-256 mismatch"
  /\ Len(blocks) >= 2
  /\ pipeline.tracker.state = "failed"

\* Every block of the receiver's file is done: the pipeline has tracked each
\* sequence of [0, totalBlocks).
AllBlocksDone == \A seq \in 0..(pipeline.totalBlocks - 1) : seq \in pipeline.blockTracker

\* C18: stop. Stopping the receiver marks the session completed if all of its
\* blocks are done and failed otherwise.
C18_StopMarksOutcome ==
  [][StopReceiver =>
      pipeline'.tracker.state = IF AllBlocksDone THEN "completed" ELSE "failed"]_vars

\* The terminal session states.
Terminal == {"completed", "failed"}

\* C19: terminal session states. Once the receiver session is completed or
\* failed, no later operation changes its state.
C19_TerminalStates ==
  [][pipeline.tracker.state \in Terminal =>
      pipeline'.tracker.state = pipeline.tracker.state]_vars

\* C20: pause and stop halt emission. A NACK handled while the sender is paused
\* or after it was stopped emits no visual frame and no binary message.
C20_HaltedSenderIsSilent ==
  [][(HandleNACK /\ (sender.isPaused \/ sender.isStopped)) => emitted' = <<>>]_vars

\* C21: elapsed time across pause/resume. The elapsed time of a TransferTracker
\* is the wall-clock time since its construction minus the total time its
\* session spent paused.
C21_ElapsedTime ==
  getElapsedSeconds(timer, now) = (now - lapse.created) - lapse.paused

\* C22: session binding of the handshake. When the sender has run
\* finalizeSenderHandshake on a receiver frame whose session id differs from
\* the session id of its own handshake frame, the handshake has failed with
\* reason mismatched_session and the sender holds no session key.
C22_SessionBinding ==
  (/\ hs.phase \in {"done", "failed"}
   /\ hs.scannedResponseFrame.type = "handshake"
   /\ hs.scannedResponseFrame.fileSessionId # hs.senderFrame.fileSessionId)
  => (/\ hs.phase = "failed"
      /\ hs.error = "mismatched_session"
      /\ hs.senderKey = NoKey)

\* C23: compression choice. selectBestCompression(x) returns type gzip only
\* when gzip returned an output strictly shorter than 0.95 * |x|, and then that
\* output; in every other case, a throwing compressor included, it returns type
\* none with compressed equal to x; originalSize is |x| in both cases.
C23_CompressionChoice ==
  sel.called =>
    LET x == sel.data
        gzipped == compress(x, "gzip")
        shorter == ~sel.threw /\ Len(gzipped) * 100 < Len(x) * 95
    IN  /\ sel.result.originalSize = Len(x)
        /\ shorter => (sel.result.type = "gzip" /\ sel.result.compressed = gzipped)
        /\ ~shorter => (sel.result.type = "none" /\ sel.result.compressed = x)

\* Witness of C23: gzip did not throw and was chosen, its output being shorter
\* than the input.
C23_Witness ==
  /\ sel.called
  /\ ~sel.threw
  /\ sel.result.type = "gzip"
  /\ Len(sel.result.compressed) < Len(sel.data)

\* C24: announcement/payload serialization. On the binary channel the message
\* that follows a block's announcement is never an announcement or a payload
\* of another block.
C24_AnnouncementThenPayload ==
  \A k \in 1..(Len(chan.wire) - 1) :
    chan.wire[k].via = "announce" => chan.wire[k + 1].seq = chan.wire[k].seq

\* A payload is handed to the channel in this step.
HandedOver(i) == flights[i].pc # "sent" /\ flights'[i].pc = "sent"

\* C25: backpressure. A payload is handed to the data channel only at a moment
\* when bufferedAmount <= 1 MiB (above the watermark it is held back), and if
\* the buffer of the open channel eventually stays at or below the watermark
\* every held payload is eventually sent.
C25_Backpressure ==
  /\ [][\A i \in Sends : HandedOver(i) => bufferedAmount(chan) <= 1048576]_vars
  /\ \A i \in Sends :
       <>[](chan.readyState = "open" /\ bufferedAmount(chan) <= 1048576)
         => (flights[i].pc = "waiting" ~> flights[i].pc = "sent")

\* Witness of C25: a call waited above the watermark and its payload went out
\* after the buffer had drained.
C25_Witness ==
  \E i \in Sends :
    /\ flights[i].held
    /\ flights[i].pc = "sent"
    /\ chan.wire[Len(chan.wire)] = [via |-> "binary", seq |-> flights[i].seq]

\* Two rows have the same primary key (fileId, seq).
SameKey(r1, r2) == r1.fileId = r2.fileId /\ r1.seq = r2.seq

\* C26: journal primary key. Every storeBlock step puts one row into the
\* journal in place of the row that had its key, leaves the rows with other
\* keys as they were, storing that row again changes nothing, and the journal
\* never holds two rows with one key.
C26_JournalPrimaryKey ==
  [][/\ \E row \in journal' :
          /\ journal' = {r \in journal : ~SameKey(r, row)} \cup {row}
          /\ storeBlock(journal', row) = journal'
     /\ \A r1, r2 \in journal' : SameKey(r1, r2) => r1 = r2]_vars

\* Witness of C26: every key has a row, and rows in each state, so that every
\* further storeBlock replaces a row.
C26_Witness ==
  /\ Cardinality(journal) = 4
  /\ {r.state : r \in journal} = {"pending", "completed", "failed"}

\* C27: failures are recorded. After a finalization that failed (blocks missing
\* or the manifest not matched) the sessions store holds a row with state
\* failed and an error reason.
C27_FailureRecorded ==
  (assembled.called /\ ~assembled.ok) =>
    \E row \in sessions : row.state = "failed" /\ row.errorReason # ""

\* A block row has the fields of StoredBlock and none of them is a key: its
\* texts and the texts of its header are not keys, its payload is ciphertext
\* bytes with their tag and its decompressed field is plain bytes.
KeyFreeBlockRow(row) ==
  /\ DOMAIN row = {"fileId", "seq", "header", "payload", "state", "decompressed"}
  /\ row.fileId \notin Keys
  /\ row.state \notin Keys
  /\ row.seq \in Nat
  /\ LET header == JSONparse(row.header)
     IN  /\ DOMAIN header = {"protocol", "fileId", "blockId", "seq", "totalSeq",
                             "payloadSize", "rawSize", "compression",
                             "encryption", "iv", "kdf", "checksum"}
         /\ \A f \in {"protocol", "fileId", "compression", "encryption", "kdf"} :
              header[f] \notin Keys
  /\ DOMAIN row.payload = {"body", "tag"}
  /\ \A i \in 1..Len(row.payload.body) : row.payload.body[i] \in Nat
  /\ \A i \in 1..Len(row.decompressed) : row.decompressed[i] \in Nat

\* C28: key confinement. No row of the journal contains the session key: block
\* rows hold identifiers, the header text, ciphertext and file bytes, and a
\* session row holds nothing derived from the key but its fingerprint.
C28_KeyConfinement ==
  /\ \A row \in journal : KeyFreeBlockRow(row)
  /\ \A row \in sessions :
       /\ "symKey" \notin DOMAIN row
       /\ row.symmetricKeyDerivative \notin Keys

\* Witness of C28: the receiver decrypted blocks with the session key and the
\* journal holds their rows.
C28_Witness ==
  /\ pipeline.symKey \in Keys
  /\ pipeline.tracker.blocksCompleted >= 1
  /\ Cardinality(journal) >= 2

\* C30: emission order. Driving a SendQueue that holds the blocks 0 .. n - 1
\* takes them in ascending sequence order, each once, and getNext() returns
\* undefined once every block has been taken (and not before).
C30_EmissionOrder ==
  ({b.seq : b \in squeue.sq.queue} = 0..(Cardinality(squeue.sq.queue) - 1)) =>
    /\ \A k \in 1..Len(squeue.taken) : squeue.taken[k] = k - 1
    /\ squeue.ended => Len(squeue.taken) = Cardinality(squeue.sq.queue)
    /\ Len(squeue.taken) = Cardinality(squeue.sq.queue) =>
         getNext(squeue.sq) = Undefined

\* C29: sender initialization. When initializeSenderPipeline returns, every
\* block created from the input file is in the pipeline's send queue and has a
\* pending row in the journal.
C29_SenderInitialization ==
  [][InitializeSenderPipeline =>
      \A i \in 1..Len(blocks') :
        /\ \E b \in sender'.sendQueue.queue : b.seq = blocks'[i].seq
        /\ \E row \in journal' :
             /\ row.fileId = blocks'[i].fileId
             /\ row.seq = blocks'[i].seq
             /\ row.state = "pending"]_vars

\* C31: NACK handling. A NACK for a block the sender holds adds one to that
\* block's retransmit counter and to the session's retransmit count and
\* re-sends the block: as announcement and payload on the binary channel when
\* the pipeline has one, and not on the binary channel otherwise.
C31_NackHandling ==
  [][(HandleNACK /\ blocks' # blocks) =>
      \E i \in 1..Len(blocks) :
        /\ blocks'[i].retransmitCount = blocks[i].retransmitCount + 1
        /\ \A j \in 1..Len(blocks) : j # i => blocks'[j] = blocks[j]
        /\ sender'.tracker.retransmitCount = sender.tracker.retransmitCount + 1
        /\ IF sender.dataChannel # "none"
           THEN emitted' = <<[via |-> "announce", seq |-> blocks[i].seq,
                              blockId |-> blocks[i].id],
                             [via |-> "binary", seq |-> blocks[i].seq,
                              blockId |-> blocks[i].id]>>
           ELSE \A k \in 1..Len(emitted') : emitted'[k].via = "qr"]_vars

\* C32: channel fallback. When a NACK-triggered retransmit over the binary
\* channel fails because the channel is closed, the block is re-sent over the
\* visual channel.
C32_ChannelFallback ==
  [][(HandleNACK /\ blocks' # blocks /\ sender.dataChannel = "closed") =>
      \E k \in 1..Len(emitted') : emitted'[k].via = "qr"]_vars

\* The payload slices of frames k .. Len(frames), decoded and joined.
RECURSIVE JoinSlices(_, _)
JoinSlices(frames, k) ==
  IF k > Len(frames) THEN <<>>
  ELSE base64ToArrayBuffer(frames[k].payload) \o JoinSlices(frames, k + 1)

\* C33: visual framing. For a block of the sender and a frame budget the
\* sender uses (the default safe chunk size, the 256 bytes of sendBlockViaQR),
\* chunkBlockForQR returns m >= 1 frames with chunkIndex 0 .. m - 1, each with
\* chunkCount = m and the block's fileId, blockId, seq and checksum, whose
\* payload slices joined in order are the block payload.
C33_VisualFraming ==
  (qr.called /\ qr.maxChunkBytes \in {(2953 * 6) \div 10, 256}) =>
    LET block == blocks[qr.seq + 1]
        m == Len(qr.frames)
    IN  /\ m >= 1
        /\ \A k \in 1..m :
             /\ qr.frames[k].chunkIndex = k - 1
             /\ qr.frames[k].chunkCount = m
             /\ qr.frames[k].fileId = block.fileId
             /\ qr.frames[k].blockId = block.id
             /\ qr.frames[k].seq = block.seq
             /\ qr.frames[k].checksum = block.header.checksum
        /\ JoinSlices(qr.frames, 1) = PayloadOf(block)

\* C34: processReceivedBlock calls decompress only after decryptAESGCM has
\* succeeded and the SHA-256 of the decrypted bytes has been found equal to
\* header.checksum; a block that fails either check is neither decompressed
\* nor stored, and the journal is left as it was.
Verified(block) ==
  LET decrypted == decryptAESGCM(block.payload, pipeline.symKey, block.header.iv)
  IN  decrypted.ok /\ computeSHA256(decrypted.data) = block.header.checksum

Called(step) == \E k \in 1..Len(last'.steps) : last'.steps[k] = step

C34_VerificationOrder ==
  [][last'.n # last.n =>
       /\ Called("decompress") =>
            /\ Verified(last'.block)
            /\ Len(last'.steps) >= 3
            /\ SubSeq(last'.steps, 1, 3) = <<"decrypt", "hash", "decompress">>
       /\ ~Verified(last'.block) =>
            /\ ~Called("decompress")
            /\ ~Called("store")
            /\ journal' = journal]_vars

\* A block whose checksum does not match was turned away after the hash, with
\* a block already in the journal.
C34_Witness ==
  /\ last.n > 0
  /\ HashDiffers(last.block)
  /\ last.steps = <<"decrypt", "hash">>
  /\ journal # {}

\* C35: a block of the send queue that has been marked completed stays
\* completed with verified = true under every later markSent, markFailed or
\* markCompleted for its sequence number.
C35_LateAck ==
  [][(MarkSent \/ MarkCompleted \/ MarkFailed) =>
       \A b \in squeue.sq.queue :
         b.state = "completed" =>
           \E c \in squeue'.sq.queue :
             c.seq = b.seq /\ c.state = "completed" /\ c.verified]_vars

\* C36: a call of processReceivedBlock that fails (decryption, checksum or
\* decompression failure) writes nothing: the journal after the call is the
\* journal before it, so a corrupted retransmit of a sequence already stored
\* neither alters nor removes the stored row.
C36_FailedReceiveKeepsJournal ==
  [][(last'.n # last.n /\ ~last'.ret) => journal' = journal]_vars

\* A corrupted frame of a block whose row is in the journal has been turned
\* away.
C36_Witness ==
  /\ last.n > 1
  /\ ~last.ret
  /\ PayloadAltered(last.block) \/ HashDiffers(last.block)
  /\ \E row \in journal :
       row.fileId = last.block.fileId /\ row.seq = last.block.seq

\* C37: in the receiver pipeline the session's blocksCompleted is the number
\* of distinct sequences recorded in the received-block tracker, and it never
\* exceeds totalBlocks, whatever was delivered (duplicates and retransmits
\* included).
C37_CompletedCount ==
  /\ pipeline.tracker.blocksCompleted = Cardinality(pipeline.blockTracker)
  /\ pipeline.tracker.blocksCompleted <= pipeline.tracker.totalBlocks

\* C38: the progress percentage of a session with blocks lies in 0..100 and
\* is 100 exactly when every block of the session has been completed, also
\* after failed deliveries.
C38_ProgressPercent ==
  pipeline.tracker.totalBlocks > 0 =>
    LET percent == getProgressPercent(pipeline.tracker)
    IN  /\ percent.kind = "number"
        /\ percent.value \in 0..100
        /\ percent.value = 100 <=>
             \A seq \in 0..(pipeline.tracker.totalBlocks - 1) :
               seq \in pipeline.blockTracker

\* C39: after add() of blocks with pairwise distinct (fileId, seq), the total
\* of getProgress() is the number of blocks added and getAll() holds each of
\* them.
C39_QueueHoldsEveryBlock ==
  /\ getProgress(squeue.sq).total = Cardinality(squeue.added)
  /\ \A key \in squeue.added :
       \E b \in getAll(squeue.sq) : b.fileId = key[1] /\ b.seq = key[2]

\* C40: a message for a peer that is not connected is queued, and the queue
\* of a peer is delivered to it, in the order sent, when it connects; a
\* message for a connected peer is delivered at once.
C40_SignalingQueue ==
  [][/\ \A targetPeerId \in Peers, type \in {"offer", "answer"} :
         HandleMessage(targetPeerId, type) =>
           LET msg == SignalingMessage(targetPeerId, type)
           IN  IF targetPeerId \in signaling.server.peers
               THEN signaling'.received[targetPeerId] =
                      Append(signaling.received[targetPeerId], JSONstringify(msg))
               ELSE QueueOf(signaling'.server, targetPeerId) =
                      Append(QueueOf(signaling.server, targetPeerId), msg)
     /\ \A peerId \in Peers :
         (HandleConnection(peerId) /\ peerId \notin signaling.server.peers) =>
           signaling'.received[peerId] =
             signaling.received[peerId] \o
               [i \in 1..Len(QueueOf(signaling.server, peerId)) |->
                  JSONstringify(QueueOf(signaling.server, peerId)[i])]]_vars

====
